---------------------------- MODULE Spec2Model ----------------------------
(***************************************************************************)
(* crumbeez: keystroke breadcrumb logger (Zellij plugin + crumbeez-lib).   *)
(*                                                                         *)
(* The module models                                                       *)
(*   - EventLog, the durable watermarked log (crumbeez-lib/event_log.rs),  *)
(*     with its versioned persistence format,                              *)
(*   - KeystrokeActivity, the volatile activity ring with its live edit    *)
(*     buffer (crumbeez-lib/lib.rs),                                       *)
(*   - the plugin's durable path: live_text / live_cursor, sealing,        *)
(*     summaries and the save / load commands (zellij-plugin/main.rs,      *)
(*     event_log_io.rs).                                                   *)
(*                                                                         *)
(* Text is a sequence of UTF-8 bytes; cursors are byte offsets, as in the  *)
(* source.  Machine integers keep a (scaled) width: usize is narrower than *)
(* u64 on the 32-bit plugin target and as wide as u64 on a native target.  *)
(***************************************************************************)
EXTENDS Integers, Sequences, FiniteSets, TLC

VARIABLES
    build,              \* how the crate was built: overflow checks, usize width
    pc,                 \* "boot" before the log is constructed, then "run",
                        \* or "loaded" for a log deserialize returned;
                        \* "failed" when deserialize returned an error
    panicked,           \* TRUE once an arithmetic-overflow panic has unwound
    event_log,          \* EventLog { events, consumed_count }
    clock,              \* the millisecond clock the timestamps are read from
    last_op,            \* history: the operation that produced this state
    prev_log,           \* history: event_log before that operation
    keystroke_activity, \* State.keystroke_activity: [events, cursor]
    live_text,          \* State.live_text: Option<String>
    live_cursor,        \* State.live_cursor
    current_pane_has_activity,  \* State.current_pane_has_activity
    last_activity_time, \* State.last_activity_time: None or a clock reading
    ref_editor,         \* history: the reference editor fed the same events
    fed,                \* history: the kinds of input fed so far, of
                        \* "sealing" and "empty text"

    discovery,          \* State.discovery: [phase, git_root, parent_git_root]
    permissions_granted,\* State.permissions_granted
    focused_pane,       \* State.focused_pane: None or a pane
    event_log_io,       \* State.event_log_io: [log_path, pending_write]
    pending_summaries,  \* State.pending_summaries
    last_summary_time,  \* State.last_summary_time: None or a clock reading
    host,               \* the Zellij host and the file system: the permission
                        \* request, armed timeouts, commands in flight, the
                        \* .crumbeez directories and the event-log file
    epoch,              \* number of times the plugin process was restarted
    summarized,         \* history: entries included in a returned summary
    unsaved,            \* history: summarized entries of which no save has
                        \* completed
    lost                \* history: the value of unsaved at the last crash

\* The variables of the key-event path of the plugin.
edit_vars == <<keystroke_activity, live_text, live_cursor,
               current_pane_has_activity, last_activity_time,
               ref_editor, fed>>

\* The other fields of the plugin's State, its environment and the history
\* of summaries.
plugin_vars == <<discovery, permissions_granted, focused_pane, event_log_io,
                 pending_summaries, last_summary_time, host, epoch,
                 summarized, unsaved, lost>>

vars == <<build, pc, panicked, event_log, clock, last_op, prev_log, edit_vars,
          plugin_vars>>

---------------------------------------------------------------------------
(* Bounds of the model and scaled machine constants.                       *)

\* EVENT_LOG_CAPACITY is 10000 in the source (event_log.rs:7); the model
\* runs the same code with a small capacity.
EVENT_LOG_CAPACITY == 3

\* Scaled usize::MAX of the 32-bit (wasm32) plugin target.
USIZE_MAX_32 == 7

\* Scaled u64::MAX; also usize::MAX of a 64-bit native target.
U64_MAX == 15

\* Largest number of entry records in a byte stream given to deserialize.
MaxLoad == 4

\* Number of append calls explored in one behaviour.
MaxAppends == 4

\* Largest repeat count carried by a key event.
MaxCount == 2

\* The clock reading at which the key-event path stops receiving events.
MaxTime == 4

\* The clock reading at which the plugin stops receiving key, pane and timer
\* events.
MaxPluginTime == 5

\* Number of times the plugin process crashes and is restarted.
MaxCrashes == 1

\* The plugin keeps the 10 most recent summaries (main.rs:265); the model
\* keeps fewer.
PENDING_SUMMARIES_CAPACITY == 2

\* Calls of push_event in SpecRing.
MaxPushes == 4

\* The most entry records in a log file found at start.
MaxFileEntries == 2

---------------------------------------------------------------------------
(* Helpers standing for std operations used by the source.                 *)

Min(a, b) == IF a <= b THEN a ELSE b

\* VecDeque::pop_front called n times; pop_front on an empty deque is a no-op.
pop_front_n(s, n) == SubSeq(s, Min(n, Len(s)) + 1, Len(s))

\* usize::MAX of the build.
usize_max == build.usize_max

\* `a + b` on usize in a build without overflow checks: wraps.
wrapping_add(a, b) == (a + b) % (usize_max + 1)

\* `x as usize` for a u64 x: truncates to the width of usize.
as_usize(x) == x % (usize_max + 1)

Builds == [overflow_checks : BOOLEAN, usize_max : {USIZE_MAX_32, U64_MAX}]

---------------------------------------------------------------------------
(* The event alphabet, KeystrokeEvent (lib.rs:88-120).                     *)

Ev(tag, kind, text, count, with_shift, with_ctrl) ==
    [tag |-> tag, kind |-> kind, text |-> text, count |-> count,
     with_shift |-> with_shift, with_ctrl |-> with_ctrl]

TextTyped(s)        == Ev("TextTyped", "", s, 0, FALSE, FALSE)
Shortcut(key)       == Ev("Shortcut", key, <<>>, 0, FALSE, FALSE)
Navigation(d, n, sh, ct) == Ev("Navigation", d, <<>>, n, sh, ct)
EditControl(k, n)   == Ev("EditControl", k, <<>>, n, FALSE, FALSE)
Escape              == Ev("Escape", "", <<>>, 0, FALSE, FALSE)
FunctionKey(n)      == Ev("FunctionKey", "", <<>>, n, FALSE, FALSE)
SystemKey(k)        == Ev("SystemKey", k, <<>>, 0, FALSE, FALSE)
PaneFocused(title)  == Ev("PaneFocused", title, <<>>, 0, FALSE, FALSE)

Backspace(n) == EditControl("Backspace", n)
Delete(n)    == EditControl("Delete", n)
Enter        == EditControl("Enter", 0)

\* The eight tags Summary::from_events counts.
EventTags == {"TextTyped", "Shortcut", "Navigation", "EditControl",
              "Escape", "FunctionKey", "SystemKey", "PaneFocused"}

LogEntry(event, timestamp_ms) == [event |-> event, timestamp_ms |-> timestamp_ms]

---------------------------------------------------------------------------
(* EventLog (event_log.rs).                                                *)

new == [events |-> <<>>, consumed_count |-> 0]

\* Mutant: the consumed prefix is evicted but the watermark is not reset.
append_keeps_watermark(log, event, timestamp_ms) ==
    LET n == IF Len(log.events) >= EVENT_LOG_CAPACITY
             THEN IF log.consumed_count > 0
                  THEN Min(log.consumed_count, Len(log.events)) ELSE 1
             ELSE 0
    IN  [log EXCEPT !.events =
            Append(pop_front_n(@, n), LogEntry(event, timestamp_ms))]

\* Mutant: a full log with nothing consumed grows instead of evicting.
append_never_evicts_unconsumed(log, event, timestamp_ms) ==
    LET room ==
          IF Len(log.events) >= EVENT_LOG_CAPACITY /\ log.consumed_count > 0
          THEN [events |-> pop_front_n(log.events,
                              Min(log.consumed_count, Len(log.events))),
                consumed_count |-> 0]
          ELSE log
    IN  [room EXCEPT !.events = Append(@, LogEntry(event, timestamp_ms))]

\* Mutant: the log is taken to be full only beyond the capacity.
append_evicts_beyond_capacity(log, event, timestamp_ms) ==
    LET room ==
          IF Len(log.events) > EVENT_LOG_CAPACITY
          THEN IF log.consumed_count > 0
               THEN [events |-> pop_front_n(log.events,
                                   Min(log.consumed_count, Len(log.events))),
                     consumed_count |-> 0]
               ELSE [log EXCEPT !.events = pop_front_n(@, 1)]
          ELSE log
    IN  [room EXCEPT !.events = Append(@, LogEntry(event, timestamp_ms))]

append(log, event, timestamp_ms) ==
    LET room ==
          IF Len(log.events) >= EVENT_LOG_CAPACITY
          THEN IF log.consumed_count > 0
               THEN [events |-> pop_front_n(log.events,
                                   Min(log.consumed_count, Len(log.events))),
                     consumed_count |-> 0]
               ELSE [log EXCEPT !.events = pop_front_n(@, 1)]
          ELSE log
    IN  [room EXCEPT !.events = Append(@, LogEntry(event, timestamp_ms))]

\* Mutant: the oldest unconsumed entry is left out.
unconsumed_without_oldest(log) ==
    SubSeq(log.events, log.consumed_count + 2, Len(log.events))

unconsumed(log) == SubSeq(log.events, Min(log.consumed_count, Len(log.events)) + 1,
                          Len(log.events))

\* saturating_sub
unconsumed_count(log) ==
    IF Len(log.events) >= log.consumed_count
    THEN Len(log.events) - log.consumed_count ELSE 0

total_count(log) == Len(log.events)

\* `self.consumed_count + count` overflows usize.
consume_overflows(log, count) == log.consumed_count + count > usize_max

\* Mutant: the watermark stops one entry short of the sum.
consume_one_short(log, count) ==
    [log EXCEPT !.consumed_count =
        IF count = 0 THEN @
        ELSE Min(wrapping_add(@, count), Len(log.events)) - 1]

\* consume in a build where the addition does not panic.
consume(log, count) ==
    [log EXCEPT !.consumed_count =
        Min(wrapping_add(log.consumed_count, count), Len(log.events))]

\* Mutant: compaction drops one entry past the watermark.
compact_one_too_many(log) ==
    IF log.consumed_count > 0
    THEN [events |-> pop_front_n(log.events, log.consumed_count + 1),
          consumed_count |-> 0]
    ELSE log

\* Mutant: compaction drops the consumed prefix but keeps the watermark.
compact_keeps_watermark(log) ==
    [log EXCEPT !.events = pop_front_n(@, Min(log.consumed_count, Len(@)))]

compact(log) ==
    IF log.consumed_count > 0
    THEN [events |-> pop_front_n(log.events,
                        Min(log.consumed_count, Len(log.events))),
          consumed_count |-> 0]
    ELSE log

---------------------------------------------------------------------------
(* Persistence format (event_log.rs:85-131).                               *)
(*                                                                         *)
(* rmp_serde writes a struct as a MessagePack array of its fields.  The    *)
(* byte stream is modelled one MessagePack value per element: an array     *)
(* marker, an unsigned integer, an encoded KeystrokeEvent, or bytes that   *)
(* are no valid MessagePack.  A stream may end after any element.  Only    *)
(* the field a value's kind t uses is meaningful.                          *)

ArrayMarker(n) == [t |-> "array", n |-> n, e |-> Escape]
UInt(n)        == [t |-> "uint", n |-> n, e |-> Escape]
EventValue(e)  == [t |-> "event", n |-> 0, e |-> e]
InvalidBytes   == [t |-> "invalid", n |-> 0, e |-> Escape]

encode_header(version, consumed_count) ==
    <<ArrayMarker(2), UInt(version), UInt(consumed_count)>>

encode_entry(entry) ==
    <<ArrayMarker(2), EventValue(entry.event), UInt(entry.timestamp_ms)>>

RECURSIVE encode_entries(_)
encode_entries(events) ==
    IF events = <<>> THEN <<>>
    ELSE encode_entry(Head(events)) \o encode_entries(Tail(events))

\* Mutant: the header is written before the watermark is known.
serialize_without_watermark(log) ==
    encode_header(1, 0) \o encode_entries(log.events)

\* serialize never fails: the writer is a Vec<u8>.
serialize(log) == encode_header(1, log.consumed_count) \o encode_entries(log.events)

\* rmp_serde::decode::from_read::<LogHeader>
decode_header(data) ==
    IF Len(data) < 3 THEN [r |-> "eof"]
    ELSE IF data[1] = ArrayMarker(2) /\ data[2].t = "uint" /\ data[3].t = "uint"
    THEN [r |-> "ok", version |-> data[2].n, consumed_count |-> data[3].n]
    ELSE [r |-> "invalid"]

\* rmp_serde::decode::from_read::<LogEntry> at offset pos: the values are read
\* in order, and running out of input at any of them is an I/O end-of-file
\* error.
decode_entry(data, pos) ==
    IF pos > Len(data) THEN [r |-> "eof"]
    ELSE IF data[pos] # ArrayMarker(2) THEN [r |-> "invalid"]
    ELSE IF pos + 1 > Len(data) THEN [r |-> "eof"]
    ELSE IF data[pos + 1].t # "event" THEN [r |-> "invalid"]
    ELSE IF pos + 2 > Len(data) THEN [r |-> "eof"]
    ELSE IF data[pos + 2].t # "uint" THEN [r |-> "invalid"]
    ELSE [r |-> "ok",
          entry |-> LogEntry(data[pos + 1].e, data[pos + 2].n)]

\* `e.to_string().contains("unexpected EOF")` (event_log.rs:120).  The source
\* relies on the decoder reporting exhausted input with this text; the text
\* belongs to the I/O error, so it is the same wherever the input ran out.
is_unexpected_eof(res) == res.r = "eof"

RECURSIVE read_entries(_, _, _)
read_entries(data, pos, events) ==
    LET res == decode_entry(data, pos)
    IN  IF res.r = "ok"
        THEN read_entries(data, pos + 3, Append(events, res.entry))
        ELSE IF is_unexpected_eof(res)
        THEN [ok |-> TRUE, events |-> events]
        ELSE [ok |-> FALSE, events |-> <<>>]

\* Mutant: the version of the header is not looked at.
deserialize_any_version(data) ==
    LET header == decode_header(data)
        body == read_entries(data, 4, <<>>)
    IN  IF header.r # "ok" \/ ~body.ok
        THEN [ok |-> FALSE, err |-> "Deserialization", log |-> new]
        ELSE [ok |-> TRUE, err |-> "",
              log |-> [events |-> body.events,
                       consumed_count |-> Min(as_usize(header.consumed_count),
                                              Len(body.events))]]

deserialize(data) ==
    LET header == decode_header(data)
    IN  IF header.r # "ok"
        THEN [ok |-> FALSE, err |-> "Deserialization", log |-> new]
        ELSE IF header.version # 1
        THEN [ok |-> FALSE, err |-> "InvalidFormat", log |-> new]
        ELSE LET body == read_entries(data, 4, <<>>)
             IN  IF ~body.ok
                 THEN [ok |-> FALSE, err |-> "Deserialization", log |-> new]
                 ELSE [ok |-> TRUE, err |-> "",
                       log |-> [events |-> body.events,
                                consumed_count |->
                                    Min(as_usize(header.consumed_count),
                                        Len(body.events))]]

---------------------------------------------------------------------------
(* Summaries (event_log.rs:140-165, event_log_io.rs:195-211).              *)

RECURSIVE count_tag(_, _)
count_tag(entries, tag) ==
    IF entries = <<>> THEN 0
    ELSE (IF Head(entries).event.tag = tag THEN 1 ELSE 0)
         + count_tag(Tail(entries), tag)

\* Mutant: every entry is counted under the kind of the first one.
from_events_one_kind(entries) ==
    [events_consumed |-> Len(entries),
     event_types |-> [tag \in {g \in EventTags : entries # <<>>
                                    /\ g = Head(entries).event.tag}
                        |-> Len(entries)]]

from_events(entries) ==
    [events_consumed |-> Len(entries),
     event_types |-> [tag \in {g \in EventTags : count_tag(entries, g) > 0}
                        |-> count_tag(entries, tag)]]

NoSummary == [some |-> FALSE]

\* Mutant: a summary is returned even when nothing is unconsumed.
generate_summary_always(log) ==
    LET summary == from_events(unconsumed(log))
    IN  [summary |-> [some |-> TRUE, value |-> summary],
         log |-> consume(log, summary.events_consumed)]

generate_summary(log) ==
    LET pending == unconsumed(log)
    IN  IF pending = <<>>
        THEN [summary |-> NoSummary, log |-> log]
        ELSE LET summary == from_events(pending)
             IN  [summary |-> [some |-> TRUE, value |-> summary],
                  log |-> consume(log, summary.events_consumed)]

---------------------------------------------------------------------------
(* UTF-8 text and the cursor helpers (lib.rs:632-714, main.rs:481-545).    *)
(*                                                                         *)
(* A string is its sequence of bytes.  The scalars used are                *)
(*   "a" = 97, "_" = 95, " " = 32 and "e-acute" = 195 169.                 *)
(* Offsets are byte offsets counted from 0, as in the source; s[i + 1] is  *)
(* the byte at offset i.                                                   *)

\* Option<usize>::None
None == -1

\* A UTF-8 continuation byte, 0b10xxxxxx.
is_continuation(b) == 128 <= b /\ b < 192

\* str::is_char_boundary
is_char_boundary(s, index) ==
    \/ index = 0
    \/ index = Len(s)
    \/ /\ 0 < index
       /\ index < Len(s)
       /\ ~is_continuation(s[index + 1])

\* Mutant: one byte back, whatever the byte is.
prev_char_boundary_bytewise(s, pos) == IF pos = 0 THEN 0 ELSE pos - 1

RECURSIVE prev_boundary_from(_, _)
prev_boundary_from(s, p) ==
    IF p > 0 /\ ~is_char_boundary(s, p) THEN prev_boundary_from(s, p - 1) ELSE p

prev_char_boundary(s, pos) ==
    IF pos = 0 THEN 0 ELSE prev_boundary_from(s, pos - 1)

RECURSIVE next_boundary_from(_, _)
next_boundary_from(s, p) ==
    IF p < Len(s) /\ ~is_char_boundary(s, p) THEN next_boundary_from(s, p + 1) ELSE p

next_char_boundary(s, pos) ==
    IF pos >= Len(s) THEN Len(s) ELSE next_boundary_from(s, pos + 1)

\* `c.is_alphanumeric() || c == '_'` for the scalar that starts at offset i.
is_word_char(s, i) == s[i + 1] \in {97, 95, 195}

\* String::insert_str
insert_str(s, idx, t) == SubSeq(s, 1, idx) \o t \o SubSeq(s, idx + 1, Len(s))

\* String::drain(from..to)
drain(s, from, to) == SubSeq(s, 1, from) \o SubSeq(s, to + 1, Len(s))

\* insert_str, drain and slicing panic on an offset that is past the end or
\* inside a scalar.
bad_offset(s, idx) == idx > Len(s) \/ ~is_char_boundary(s, idx)

\* word_left, second loop: p is the offset just right of the scalars still to
\* be visited; the word is skipped up to the first non-word scalar.
RECURSIVE word_left_skip_word(_, _)
word_left_skip_word(s, p) ==
    IF p = 0 THEN 0
    ELSE LET i == prev_char_boundary(s, p)
         IN  IF ~is_word_char(s, i)
             THEN next_char_boundary(s, i)
             ELSE word_left_skip_word(s, i)

\* word_left, first loop: scalars are consumed right to left up to and
\* including the first word scalar.
RECURSIVE word_left_skip_nonword(_, _)
word_left_skip_nonword(s, p) ==
    IF p = 0 THEN 0
    ELSE LET i == prev_char_boundary(s, p)
         IN  IF is_word_char(s, i)
             THEN word_left_skip_word(s, i)
             ELSE word_left_skip_nonword(s, i)

\* Mutant: Ctrl+Left always goes to the start of the text.
word_left_to_start(s, pos) == 0

word_left(s, pos) == word_left_skip_nonword(s, pos)

\* word_right, second loop: the first non-word scalar ends the move.
RECURSIVE word_right_skip_word(_, _)
word_right_skip_word(s, p) ==
    IF p >= Len(s) THEN Len(s)
    ELSE IF ~is_word_char(s, p) THEN p
    ELSE word_right_skip_word(s, next_char_boundary(s, p))

\* word_right, first loop: scalars are consumed up to and including the
\* first word scalar.
RECURSIVE word_right_find_word(_, _)
word_right_find_word(s, p) ==
    IF p >= Len(s) THEN Len(s)
    ELSE IF is_word_char(s, p)
    THEN word_right_skip_word(s, next_char_boundary(s, p))
    ELSE word_right_find_word(s, next_char_boundary(s, p))

word_right(s, pos) == word_right_find_word(s, pos)

\* Mutant: the ring's Left loop leaves the cursor where it was.
move_left_unmoved(s, pos, count) == pos

\* `for _ in 0..count { pos = step(buf, pos) }`
RECURSIVE move_left(_, _, _)
move_left(s, pos, count) ==
    IF count = 0 THEN pos ELSE move_left(s, prev_char_boundary(s, pos), count - 1)

RECURSIVE move_right(_, _, _)
move_right(s, pos, count) ==
    IF count = 0 THEN pos ELSE move_right(s, next_char_boundary(s, pos), count - 1)

---------------------------------------------------------------------------
(* KeystrokeActivity, the activity ring (lib.rs:364-630).                  *)
(* A ring is [events, cursor]; cursor is None or a byte offset into the    *)
(* TextTyped entry at the tail.                                            *)

\* KEYSTROKE_LOG_CAPACITY is 200 in the source (lib.rs:81).
KEYSTROKE_LOG_CAPACITY == 3

\* KeystrokeActivity::new
KeystrokeActivity_new == [events |-> <<>>, cursor |-> None]

\* VecDeque::back, pop_back, and assignment through back_mut
back(events) == events[Len(events)]
pop_back(events) == SubSeq(events, 1, Len(events) - 1)
set_back(events, e) == [events EXCEPT ![Len(events)] = e]

\* `if let Some(KeystrokeEvent::TextTyped(buf)) = self.events.back()`
back_is_text(events) == events # <<>> /\ back(events).tag = "TextTyped"

\* Mutant: a full ring is emptied before the entry is appended.
append_evicts_all(events, event) ==
    IF Len(events) >= KEYSTROKE_LOG_CAPACITY THEN <<event>> ELSE events \o <<event>>

\* Mutant: the ring grows past its capacity.
append_without_eviction(events, event) == events \o <<event>>

\* KeystrokeActivity::append
KeystrokeActivity_append(events, event) ==
    (IF Len(events) >= KEYSTROKE_LOG_CAPACITY THEN Tail(events) ELSE events)
        \o <<event>>

\* The arms of try_coalesce that merge.
coalesces(last, incoming) ==
    \/ /\ last.tag = "EditControl" /\ incoming.tag = "EditControl"
       /\ last.kind = incoming.kind
       /\ last.kind \in {"Backspace", "Delete"}
    \/ /\ last.tag = "Navigation" /\ incoming.tag = "Navigation"
       /\ last.kind = incoming.kind
       /\ last.with_shift = incoming.with_shift
       /\ last.with_ctrl = incoming.with_ctrl

\* What a merge adds to the count of the tail entry: `*count += 1` for
\* Backspace / Delete, `prev.count += next.count` for Navigation.
coalesce_increment(last, incoming) ==
    IF last.tag = "EditControl" THEN 1 ELSE incoming.count

\* The `+=` of a merge overflows usize.
try_coalesce_overflows(last, incoming) ==
    coalesces(last, incoming) /\ last.count + coalesce_increment(last, incoming) > usize_max

\* try_coalesce: the tail entry after the call.
try_coalesce(last, incoming) ==
    IF coalesces(last, incoming)
    THEN [last EXCEPT !.count = wrapping_add(@, coalesce_increment(last, incoming))]
    ELSE last

\* Mutant: an event that meets a text entry at the tail takes its place.
coalesce_or_replace_text(events, event) ==
    IF events # <<>> /\ back_is_text(events)
    THEN set_back(events, event)
    ELSE IF events # <<>> /\ coalesces(back(events), event)
    THEN set_back(events, try_coalesce(back(events), event))
    ELSE KeystrokeActivity_append(events, event)

coalesce_or_append(events, event) ==
    IF events # <<>> /\ coalesces(back(events), event)
    THEN set_back(events, try_coalesce(back(events), event))
    ELSE KeystrokeActivity_append(events, event)

\* KeystrokeActivity::push_event
push_event(ka, event) ==
    LET events == ka.events
        cursor == ka.cursor
        live   == cursor # None /\ back_is_text(events)
        buf    == back(events).text
        plain  == [events |-> coalesce_or_append(events, event), cursor |-> cursor]
        seals  == [events |-> coalesce_or_append(events, event), cursor |-> None]
    IN  CASE event.tag = "TextTyped" ->
               IF live
               THEN [events |-> set_back(events,
                                    TextTyped(insert_str(buf, cursor, event.text))),
                     cursor |-> cursor + Len(event.text)]
               ELSE [events |-> KeystrokeActivity_append(events, event),
                     cursor |-> Len(event.text)]
          [] event.tag = "EditControl" /\ event.kind = "Backspace" ->
               IF cursor # None /\ cursor = 0 THEN ka
               ELSE IF live
               THEN LET prev == prev_char_boundary(buf, cursor)
                        rest == drain(buf, prev, cursor)
                    IN  IF rest = <<>>
                        THEN [events |-> pop_back(events), cursor |-> None]
                        ELSE [events |-> set_back(events, TextTyped(rest)),
                              cursor |-> prev]
               ELSE plain
          [] event.tag = "EditControl" /\ event.kind = "Delete" ->
               IF live
               THEN IF cursor < Len(buf)
                    THEN LET next == next_char_boundary(buf, cursor)
                             rest == drain(buf, cursor, next)
                         IN  IF rest = <<>>
                             THEN [events |-> pop_back(events), cursor |-> None]
                             ELSE [events |-> set_back(events, TextTyped(rest)),
                                   cursor |-> cursor]
                    ELSE ka
               ELSE plain
          [] event.tag = "Navigation" /\ event.kind = "Left" ->
               IF live
               THEN [ka EXCEPT !.cursor =
                        IF event.with_ctrl THEN word_left(buf, cursor)
                        ELSE move_left(buf, cursor, event.count)]
               ELSE plain
          [] event.tag = "Navigation" /\ event.kind = "Right" ->
               IF live
               THEN [ka EXCEPT !.cursor =
                        IF event.with_ctrl THEN word_right(buf, cursor)
                        ELSE move_right(buf, cursor, event.count)]
               ELSE plain
          [] event.tag = "Navigation" /\ event.kind = "Home" ->
               IF cursor # None THEN [ka EXCEPT !.cursor = 0] ELSE plain
          [] event.tag = "Navigation" /\ event.kind = "End" ->
               IF live THEN [ka EXCEPT !.cursor = Len(buf)] ELSE plain
          [] OTHER -> seals

\* The call reaches coalesce_or_append.
push_event_coalesces(ka, event) ==
    LET cursor == ka.cursor
        live   == cursor # None /\ back_is_text(ka.events)
    IN  CASE event.tag = "TextTyped" -> FALSE
          [] event.tag = "EditControl" /\ event.kind = "Backspace" ->
               ~(cursor # None /\ (cursor = 0 \/ live))
          [] event.tag = "EditControl" /\ event.kind = "Delete" -> ~live
          [] event.tag = "Navigation" /\ event.kind \in {"Left", "Right", "End"} -> ~live
          [] event.tag = "Navigation" /\ event.kind = "Home" -> cursor = None
          [] OTHER -> TRUE

\* push_event panics: a string operation on an offset inside a scalar, or an
\* overflowing `+=` in a build with overflow checks.
push_event_panics(ka, event) ==
    LET events == ka.events
        cursor == ka.cursor
        live   == cursor # None /\ back_is_text(events)
        edits  == \/ event.tag = "TextTyped"
                  \/ event.tag = "EditControl" /\ event.kind = "Backspace" /\ cursor > 0
                  \/ event.tag = "EditControl" /\ event.kind = "Delete"
                  \/ /\ event.tag = "Navigation" /\ event.with_ctrl
                     /\ event.kind \in {"Left", "Right"}
    IN  \/ live /\ edits /\ bad_offset(back(events).text, cursor)
        \/ /\ push_event_coalesces(ka, event)
           /\ events # <<>>
           /\ try_coalesce_overflows(back(events), event)
           /\ build.overflow_checks

---------------------------------------------------------------------------
(* The plugin's durable path (main.rs:43-147): live_text / live_cursor and *)
(* sealing into the EventLog.  A durable state is                          *)
(* [live_text, live_cursor, event_log, reads]; reads counts the clock      *)
(* readings the call made, each one later than the one before.             *)

\* Option<String>
NoText == [some |-> FALSE, text |-> <<>>]
SomeText(s) == [some |-> TRUE, text |-> s]

Durable(text, cursor, log, reads) ==
    [live_text |-> text, live_cursor |-> cursor,
     event_log |-> log, reads |-> reads]

\* Mutant: the buffer is discarded without being logged.
seal_pending_text_drops_text(d, t) == Durable(NoText, 0, d.event_log, d.reads)

\* State::seal_pending_text; t is the clock at the call.
seal_pending_text(d, t) ==
    LET logged == d.live_text.some /\ d.live_text.text # <<>>
    IN  Durable(NoText, 0,
                IF logged
                THEN append(d.event_log, TextTyped(d.live_text.text), t)
                ELSE d.event_log,
                IF logged THEN d.reads + 1 ELSE d.reads)

\* Mutant: an event that finds no live text is not logged.
seal_and_log_only_after_text(d, event, t) ==
    LET flushed == seal_pending_text(d, t)
    IN  IF ~d.live_text.some THEN d
        ELSE Durable(NoText, 0,
                     append(flushed.event_log, event, t + (flushed.reads - d.reads)),
                     flushed.reads + 1)

\* State::seal_and_log
seal_and_log(d, event, t) ==
    LET flushed == seal_pending_text(d, t)
    IN  Durable(NoText, 0,
                append(flushed.event_log, event, t + (flushed.reads - d.reads)),
                flushed.reads + 1)

\* State::process_for_event_log, up to the assignment of last_activity_time.
process_for_event_log(d, event, t) ==
    LET text   == d.live_text.text
        cursor == d.live_cursor
    IN  CASE event.tag = "TextTyped" ->
               IF d.live_text.some
               THEN [d EXCEPT !.live_text = SomeText(insert_str(text, cursor, event.text)),
                              !.live_cursor = cursor + Len(event.text)]
               ELSE [d EXCEPT !.live_text = SomeText(event.text),
                              !.live_cursor = Len(event.text)]
          [] event.tag = "EditControl" /\ event.kind = "Backspace" ->
               IF d.live_text.some /\ cursor > 0
               THEN LET prev == prev_char_boundary(text, cursor)
                        rest == drain(text, prev, cursor)
                    IN  [d EXCEPT !.live_text = IF rest = <<>> THEN NoText
                                                ELSE SomeText(rest),
                                  !.live_cursor = prev]
               ELSE d
          [] event.tag = "EditControl" /\ event.kind = "Delete" ->
               IF d.live_text.some /\ cursor < Len(text)
               THEN LET next == next_char_boundary(text, cursor)
                        rest == drain(text, cursor, next)
                    IN  [d EXCEPT !.live_text = IF rest = <<>> THEN NoText
                                                ELSE SomeText(rest)]
               ELSE d
          [] event.tag = "Navigation" /\ event.kind = "Left" ->
               IF d.live_text.some
               THEN [d EXCEPT !.live_cursor =
                        IF event.with_ctrl THEN word_left(text, cursor)
                        ELSE prev_char_boundary(text, cursor)]
               ELSE d
          [] event.tag = "Navigation" /\ event.kind = "Right" ->
               IF d.live_text.some
               THEN [d EXCEPT !.live_cursor =
                        IF event.with_ctrl THEN word_right(text, cursor)
                        ELSE next_char_boundary(text, cursor)]
               ELSE d
          [] event.tag = "Navigation" /\ event.kind = "Home" ->
               [d EXCEPT !.live_cursor = 0]
          [] event.tag = "Navigation" /\ event.kind = "End" ->
               IF d.live_text.some
               THEN [d EXCEPT !.live_cursor = Len(text)]
               ELSE d
          [] OTHER -> seal_and_log(d, event, t)

\* process_for_event_log panics: a string operation on an offset inside a
\* scalar.
process_for_event_log_panics(d, event) ==
    /\ d.live_text.some
    /\ \/ event.tag = "TextTyped"
       \/ event.tag = "EditControl" /\ event.kind = "Backspace" /\ d.live_cursor > 0
       \/ event.tag = "EditControl" /\ event.kind = "Delete"
       \/ /\ event.tag = "Navigation" /\ event.with_ctrl
          /\ event.kind \in {"Left", "Right"}
    /\ bad_offset(d.live_text.text, d.live_cursor)

---------------------------------------------------------------------------
(* The reference editor the edit buffers are compared with: a sequence of  *)
(* whole scalars and a cursor counted in scalars (spec section 4.1).       *)

\* Bytes of the UTF-8 encoding that starts with the given lead byte.
utf8_width(lead) ==
    IF lead < 128 THEN 1 ELSE IF lead < 224 THEN 2 ELSE IF lead < 240 THEN 3 ELSE 4

RECURSIVE scalars(_)
scalars(bytes) ==
    IF bytes = <<>> THEN <<>>
    ELSE LET w == Min(utf8_width(bytes[1]), Len(bytes))
         IN  <<SubSeq(bytes, 1, w)>> \o scalars(SubSeq(bytes, w + 1, Len(bytes)))

RECURSIVE flatten(_)
flatten(ss) == IF ss = <<>> THEN <<>> ELSE ss[1] \o flatten(Tail(ss))

RefNew == [text |-> <<>>, cursor |-> 0]

ref_is_word(scalar) == scalar \in {<<97>>, <<95>>, <<195, 169>>}

RECURSIVE ref_skip_left(_, _, _)
ref_skip_left(text, i, word) ==
    IF i > 0 /\ ref_is_word(text[i]) = word
    THEN ref_skip_left(text, i - 1, word) ELSE i

RECURSIVE ref_skip_right(_, _, _)
ref_skip_right(text, i, word) ==
    IF i < Len(text) /\ ref_is_word(text[i + 1]) = word
    THEN ref_skip_right(text, i + 1, word) ELSE i

\* Left by a word: skip trailing non-word scalars, then the word.
ref_word_left(text, cursor) ==
    ref_skip_left(text, ref_skip_left(text, cursor, FALSE), TRUE)

\* Right by a word: to the end of the current word, then to the start of
\* the next word or the end of the buffer.
ref_word_right(text, cursor) ==
    ref_skip_right(text, ref_skip_right(text, cursor, TRUE), FALSE)

ref_remove(text, i) == SubSeq(text, 1, i - 1) \o SubSeq(text, i + 1, Len(text))

is_sealing(event) ==
    ~ \/ event.tag = "TextTyped"
      \/ event.tag = "EditControl" /\ event.kind \in {"Backspace", "Delete"}
      \/ event.tag = "Navigation" /\ event.kind \in {"Left", "Right", "Home", "End"}

\* What an event adds to the history variable fed.
feeds(event) ==
    (IF is_sealing(event) THEN {"sealing"} ELSE {})
    \cup (IF event.tag = "TextTyped" /\ event.text = <<>>
          THEN {"empty text"} ELSE {})

ref_apply(ref, event) ==
    LET text   == ref.text
        cursor == ref.cursor
    IN  CASE event.tag = "TextTyped" ->
               [text |-> SubSeq(text, 1, cursor) \o scalars(event.text)
                             \o SubSeq(text, cursor + 1, Len(text)),
                cursor |-> cursor + Len(scalars(event.text))]
          [] event.tag = "EditControl" /\ event.kind = "Backspace" ->
               IF cursor > 0
               THEN [text |-> ref_remove(text, cursor), cursor |-> cursor - 1]
               ELSE ref
          [] event.tag = "EditControl" /\ event.kind = "Delete" ->
               IF cursor < Len(text)
               THEN [text |-> ref_remove(text, cursor + 1), cursor |-> cursor]
               ELSE ref
          [] event.tag = "Navigation" /\ event.kind = "Left" ->
               [ref EXCEPT !.cursor =
                   IF event.with_ctrl THEN ref_word_left(text, cursor)
                   ELSE IF event.count >= cursor THEN 0 ELSE cursor - event.count]
          [] event.tag = "Navigation" /\ event.kind = "Right" ->
               [ref EXCEPT !.cursor =
                   IF event.with_ctrl THEN ref_word_right(text, cursor)
                   ELSE Min(Len(text), cursor + event.count)]
          [] event.tag = "Navigation" /\ event.kind = "Home" ->
               [ref EXCEPT !.cursor = 0]
          [] event.tag = "Navigation" /\ event.kind = "End" ->
               [ref EXCEPT !.cursor = Len(text)]
          [] OTHER -> RefNew

\* State::default() for the fields of the key-event path (main.rs:16-31).
InitKeyPath ==
    /\ keystroke_activity = KeystrokeActivity_new
    /\ live_text = NoText
    /\ live_cursor = 0
    /\ current_pane_has_activity = FALSE
    /\ last_activity_time = None
    /\ ref_editor = RefNew
    /\ fed = {}

---------------------------------------------------------------------------
(* Root discovery, the event-log I/O and the host (root_discovery.rs,      *)
(* event_log_io.rs, main.rs:157-179).                                      *)
(*                                                                         *)
(* The host runs the plugin's commands asynchronously.  A command is       *)
(*   [id, purpose, owner, path, data, sat, done, exit_ok, stdout]          *)
(* where owner is the plugin process that issued it, path the directory of *)
(* a mkdir or the file of a read or write, data the bytes of a write, and  *)
(* sat the value of summarized when those bytes were serialized (history). *)

\* Option<PathBuf>::None and the paths of the model.
NoPath     == <<>>
InitialCwd == <<"cwd">>
GitRoot    == <<"repo">>
ParentRoot == <<"superproject">>

\* Where the session was started: outside a git repository, in a
\* repository, or in a submodule of a superproject.
Envs == {"plain", "repo", "submodule"}

\* crumbeez_lib::crumbeez_dir
crumbeez_dir(root) == root \o <<".crumbeez">>

\* crumbeez_lib::event_log_path_from_crumbeez_dir: a file in the directory.
event_log_path_from_crumbeez_dir(dir) == dir \o <<"event log">>

\* DiscoveryPhase
AwaitingPermissions == [name |-> "AwaitingPermissions", pending |-> 0, dirs |-> <<>>]
FindingGitRoot      == [name |-> "FindingGitRoot", pending |-> 0, dirs |-> <<>>]
FindingSuperproject == [name |-> "FindingSuperproject", pending |-> 0, dirs |-> <<>>]
CreatingDirs(pending, dirs) == [name |-> "CreatingDirs", pending |-> pending, dirs |-> dirs]
Ready(dirs)         == [name |-> "Ready", pending |-> 0, dirs |-> dirs]
Failed              == [name |-> "Failed", pending |-> 0, dirs |-> <<>>]

\* RootDiscovery::default
RootDiscovery_default ==
    [initial_cwd |-> NoPath, git_root |-> NoPath, parent_git_root |-> NoPath,
     phase |-> AwaitingPermissions]

\* Option<FocusedPane>::None
NoPane == "no pane"

\* Option<Vec<u8>>
NoData == [some |-> FALSE, data |-> <<>>]
SomeData(data) == [some |-> TRUE, data |-> data]

\* EventLogIO::new
EventLogIO_new == [log_path |-> NoPath, pending_write |-> NoData]

\* The shell's base64 and the plugin's base64_encode / base64_decode carry the
\* bytes unchanged; the text form is kept apart from the bytes.
base64_encode(data) == [base64 |-> data]
base64_decode(text) == text.base64

\* The event-log file: absent, or bytes with the history of their save.
NoFile == [exists |-> FALSE, data |-> <<>>, sat |-> {}]

Command(id, purpose, owner, path, data, sat) ==
    [id |-> id, purpose |-> purpose, owner |-> owner, path |-> path,
     data |-> data, sat |-> sat,
     done |-> FALSE, exit_ok |-> FALSE, stdout |-> base64_encode(<<>>)]

\* The host after ZellijPlugin::load: the permission request is pending.
Host_after_load(env) ==
    [env |-> env, permission_pending |-> TRUE, timers |-> 0,
     commands |-> {}, issued |-> 0, dirs |-> {}, file |-> NoFile]

\* run_command_with_env_variables_and_cwd
run_command(h, purpose, path, data, sat) ==
    [h EXCEPT !.commands = @ \cup {Command(h.issued, purpose, epoch, path, data, sat)},
              !.issued = @ + 1]

\* State::default() for the fields outside the key-event path, and the
\* history of summaries.
InitPluginState ==
    /\ discovery = RootDiscovery_default
    /\ permissions_granted = FALSE
    /\ focused_pane = NoPane
    /\ event_log_io = EventLogIO_new
    /\ pending_summaries = <<>>
    /\ last_summary_time = None
    /\ epoch = 0
    /\ summarized = {}
    /\ unsaved = {}
    /\ lost = {}

---------------------------------------------------------------------------
(* SpecLog: every call sequence on one EventLog.                           *)
(*                                                                         *)
(* The log is constructed by new() or by deserialize of a byte stream and  *)
(* then driven by append, consume, compact, generate_summary and a         *)
(* serialize / deserialize round trip.                                     *)

Op(name, arg, ok, data) == [name |-> name, arg |-> arg, ok |-> ok, data |-> data]

\* last_op.data of a plugin handler that keeps nothing there: a record, as
\* the data of the other handlers are.
NoHistory == [none |-> TRUE]

\* Events appended in SpecLog, and events found in loaded streams.
LogEvents == {TextTyped(<<97>>), Escape}

\* Timestamps identify entries: a loaded entry carries its position, an
\* appended entry the clock reading, which is past every loaded timestamp.
now == MaxLoad + 1 + clock

\* The events of a loaded stream alternate between the two kinds.
LoadEntries ==
    {[i \in 1..n |-> IF i % 2 = 1 THEN TextTyped(<<97>>) ELSE Escape] :
     n \in 0..MaxLoad}

WellFormedStreams ==
    {encode_header(v, c)
        \o encode_entries([i \in 1..Len(evs) |-> LogEntry(evs[i], i)]) :
     v \in {1, 2}, c \in 0..U64_MAX, evs \in LoadEntries}

Prefixes(s) == {SubSeq(s, 1, n) : n \in 0..Len(s)}

Corruptions(s) == {[s EXCEPT ![i] = InvalidBytes] : i \in 1..Len(s)}

\* The byte streams given to deserialize: well-formed ones, every truncation
\* of one, and every one with a value overwritten by invalid bytes.
Streams == UNION {Prefixes(w) \cup Corruptions(w) : w \in WellFormedStreams}

\* What a stream says of itself: the header's consumedCount, the number of
\* complete entry records after the header, the header's version (None
\* without a whole header), whether the stream ends part-way through an
\* entry record, and whether a value after the header is invalid.
StreamFacts(data) ==
    [c |-> IF Len(data) >= 3 /\ data[3].t = "uint" THEN data[3].n ELSE 0,
     m |-> IF Len(data) >= 3 THEN (Len(data) - 3) \div 3 ELSE 0,
     version |-> IF /\ Len(data) >= 3
                    /\ data[1] = ArrayMarker(2)
                    /\ data[2].t = "uint"
                    /\ data[3].t = "uint"
                 THEN data[2].n ELSE None,
     truncated |-> Len(data) > 3 /\ (Len(data) - 3) % 3 # 0,
     corrupt |-> \E i \in 4..Len(data) : data[i] = InvalidBytes]

InitLog ==
    /\ build \in Builds
    /\ pc = "boot"
    /\ panicked = FALSE
    /\ event_log = new
    /\ clock = 0
    /\ last_op = Op("init", 0, TRUE, 0)
    /\ prev_log = new
    /\ InitKeyPath
    /\ InitPluginState
    /\ host = Host_after_load("plain")

LogNew ==
    /\ pc = "boot"
    /\ pc' = "run"
    /\ event_log' = new
    /\ last_op' = Op("new", 0, TRUE, 0)
    /\ prev_log' = event_log
    /\ UNCHANGED <<build, panicked, clock, edit_vars, plugin_vars>>

LogDeserialize ==
    /\ pc = "boot"
    /\ \E data \in Streams :
         LET res == deserialize(data)
         IN  /\ pc' = IF res.ok THEN "loaded" ELSE "failed"
             /\ event_log' = IF res.ok THEN res.log ELSE event_log
             /\ last_op' = Op("deserialize", 0, res.ok,
                              [err |-> res.err, facts |-> StreamFacts(data)])
    /\ prev_log' = event_log
    /\ UNCHANGED <<build, panicked, clock, edit_vars, plugin_vars>>

Running == pc \in {"run", "loaded"} /\ ~panicked

LogAppend ==
    /\ Running
    /\ clock < MaxAppends
    /\ \E e \in LogEvents :
         /\ event_log' = append(event_log, e, now)
         /\ last_op' = Op("append", 0, TRUE, LogEntry(e, now))
    /\ clock' = clock + 1
    /\ prev_log' = event_log
    /\ UNCHANGED <<build, pc, panicked, edit_vars, plugin_vars>>

\* consume(count) for every usize count.  With overflow checks compiled in,
\* an overflowing `self.consumed_count + count` panics; otherwise it wraps.
LogConsume ==
    /\ Running
    /\ \E count \in 0..usize_max :
         IF consume_overflows(event_log, count) /\ build.overflow_checks
         THEN /\ panicked' = TRUE
              /\ event_log' = event_log
              /\ last_op' = Op("consume", count, FALSE, 0)
         ELSE /\ panicked' = FALSE
              /\ event_log' = consume(event_log, count)
              /\ last_op' = Op("consume", count, TRUE, 0)
    /\ prev_log' = event_log
    /\ UNCHANGED <<build, pc, clock, edit_vars, plugin_vars>>

\* last_op.data is history: whether the call follows a consume that
\* returned, and then that consume's argument and the log it was applied to.
LogCompact ==
    /\ Running
    /\ event_log' = compact(event_log)
    /\ last_op' = Op("compact", 0, TRUE,
                     IF last_op.name = "consume" /\ last_op.ok
                     THEN [after_consume |-> TRUE, n |-> last_op.arg,
                           before |-> prev_log]
                     ELSE [after_consume |-> FALSE, n |-> 0, before |-> new])
    /\ prev_log' = event_log
    /\ UNCHANGED <<build, pc, panicked, clock, edit_vars, plugin_vars>>

LogGenerateSummary ==
    /\ Running
    /\ LET res == generate_summary(event_log)
       IN  /\ event_log' = res.log
           /\ last_op' = Op("generate_summary", 0, TRUE, res.summary)
    /\ prev_log' = event_log
    /\ UNCHANGED <<build, pc, panicked, clock, edit_vars, plugin_vars>>

\* serialize, then deserialize of exactly the bytes written.
LogRoundTrip ==
    /\ Running
    /\ LET res == deserialize(serialize(event_log))
       IN  /\ event_log' = res.log
           /\ last_op' = Op("round_trip", 0, res.ok, res.err)
    /\ prev_log' = event_log
    /\ UNCHANGED <<build, pc, panicked, clock, edit_vars, plugin_vars>>

NextLog ==
    \/ LogNew
    \/ LogDeserialize
    \/ LogAppend
    \/ LogConsume
    \/ LogCompact
    \/ LogGenerateSummary
    \/ LogRoundTrip

SpecLog == InitLog /\ [][NextLog]_vars

---------------------------------------------------------------------------
(* Properties of the EventLog, checked under SpecLog.                      *)

Range(s) == {s[i] : i \in 1..Len(s)}

\* Positions of prev_log whose entry is no longer in event_log.
Removed == {i \in 1..Len(prev_log.events) :
               prev_log.events[i] \notin Range(event_log.events)}

AtCapacityAppend ==
    /\ last_op.name = "append"
    /\ Len(prev_log.events) = EVENT_LOG_CAPACITY

\* C1: in every state reached from new() or deserialize(any bytes) by append,
\* consume, compact and generate_summary, 0 <= consumed_count <= number of
\* entries; and deserialize of a stream whose header says consumedCount = c
\* and which holds m entries yields consumed_count = min(c, m).
C1_WatermarkAndClamp ==
    /\ pc \in {"run", "loaded"} =>
         /\ 0 <= event_log.consumed_count
         /\ event_log.consumed_count <= Len(event_log.events)
    /\ (last_op.name = "deserialize" /\ last_op.ok) =>
         event_log.consumed_count =
             Min(last_op.data.facts.c, last_op.data.facts.m)

\* C2 (as claimed): append, consume and compact remove an entry only from the
\* consumed prefix [0, consumed_count) of the log they are applied to.
C2_OnlyConsumedRemoved ==
    last_op.name \in {"append", "consume", "compact"} =>
        \A i \in Removed : i <= prev_log.consumed_count

\* C2 (amended): an entry is removed only if it lay in the consumed prefix, or
\* it is the single oldest entry and an append found the log holding at
\* least EVENT_LOG_CAPACITY entries with consumed_count = 0.
C2_RemovedConsumedOrOldestWhenFull ==
    last_op.name \in {"append", "consume", "compact"} =>
        \A i \in Removed :
            \/ i <= prev_log.consumed_count
            \/ /\ last_op.name = "append"
               /\ Len(prev_log.events) >= EVENT_LOG_CAPACITY
               /\ prev_log.consumed_count = 0
               /\ i = 1

C2_Witness ==
    /\ AtCapacityAppend
    /\ prev_log.consumed_count = 0
    /\ Removed = {1}

\* C8: append to a log holding exactly capacity entries with consumed_count =
\* k > 0 removes exactly the k oldest entries, keeps the unconsumed ones in
\* order, puts the new entry last, and leaves length = capacity - k + 1 and
\* consumed_count = 0.
C8_AppendAtCapacityConsumed ==
    (AtCapacityAppend /\ prev_log.consumed_count > 0) =>
        LET k == prev_log.consumed_count
        IN  /\ event_log.events =
                  Append(SubSeq(prev_log.events, k + 1, EVENT_LOG_CAPACITY),
                         last_op.data)
            /\ Len(event_log.events) = (EVENT_LOG_CAPACITY - k) + 1
            /\ event_log.consumed_count = 0

C8_Witness ==
    /\ AtCapacityAppend
    /\ prev_log.consumed_count > 0
    /\ prev_log.consumed_count < EVENT_LOG_CAPACITY
    /\ Len(event_log.events) >= 2

\* C9: append to a log holding exactly capacity entries with consumed_count =
\* 0 evicts exactly the oldest entry, puts the new entry last, and leaves
\* length = capacity and consumed_count = 0.
C9_AppendAtCapacityUnconsumed ==
    (AtCapacityAppend /\ prev_log.consumed_count = 0) =>
        /\ event_log.events = Append(Tail(prev_log.events), last_op.data)
        /\ Len(event_log.events) = EVENT_LOG_CAPACITY
        /\ event_log.consumed_count = 0

C9_Witness ==
    /\ AtCapacityAppend
    /\ prev_log.consumed_count = 0
    /\ last_op.data \in Range(event_log.events)

\* C10: consume(n) sets consumed_count to min(consumed_count + n, length) for
\* every n >= 0 and changes nothing else; consume(0) changes nothing.
\* (Stated of the calls that return.)
C10_Consume ==
    (last_op.name = "consume" /\ last_op.ok) =>
        /\ event_log.events = prev_log.events
        /\ event_log.consumed_count =
               Min(prev_log.consumed_count + last_op.arg, Len(prev_log.events))
        /\ last_op.arg = 0 => event_log = prev_log

\* C4: deserialize(serialize(log)) succeeds and yields the same entries in
\* the same order and the same consumed_count.
C4_RoundTrip ==
    last_op.name = "round_trip" =>
        /\ last_op.ok
        /\ event_log.events = prev_log.events
        /\ event_log.consumed_count = prev_log.consumed_count

C4_Witness ==
    /\ last_op.name = "round_trip"
    /\ Len(prev_log.events) >= 2
    /\ prev_log.consumed_count > 0
    /\ prev_log.consumed_count < Len(prev_log.events)
    /\ event_log = prev_log

\* C11: consumed_count never decreases in a step other than compact or a
\* load; no append, no consume and no generate_summary lowers it.
C11_WatermarkMonotonic ==
    last_op.name \in {"append", "consume", "generate_summary"} =>
        event_log.consumed_count >= prev_log.consumed_count

\* C12: compact removes exactly the entries [0, consumed_count), sets
\* consumed_count to 0 and leaves the unconsumed sequence as it was; with
\* consumed_count = 0 it changes nothing.
C12_CompactFrame ==
    last_op.name = "compact" =>
        /\ event_log.events =
               SubSeq(prev_log.events, prev_log.consumed_count + 1,
                      Len(prev_log.events))
        /\ event_log.consumed_count = 0
        /\ unconsumed(event_log) = unconsumed(prev_log)
        /\ prev_log.consumed_count = 0 => event_log = prev_log

C12_Witness ==
    /\ last_op.name = "compact"
    /\ prev_log.consumed_count > 0
    /\ prev_log.consumed_count < Len(prev_log.events)
    /\ Len(event_log.events) >= 2

\* A compact that directly follows a consume(n) that returned.
ConsumeThenCompact == last_op.name = "compact" /\ last_op.data.after_consume

\* C13 (as claimed): after consume(n) then compact(), unconsumed_count() is
\* the total_count() before the compact minus n, n clamped at that total.
C13_ConsumeCompactCount ==
    ConsumeThenCompact =>
        unconsumed_count(event_log) =
            total_count(prev_log) - Min(last_op.data.n, total_count(prev_log))

\* C13 (amended): after consume(n) then compact(), unconsumed_count() is the
\* total_count() before the compact minus the consumed_count the consume
\* left; for a log whose consumed_count was 0 before the consume that is the
\* total minus n, n clamped at the total.
C13_ConsumeCompactCountFromWatermark ==
    ConsumeThenCompact =>
        /\ unconsumed_count(event_log) =
               total_count(prev_log) - prev_log.consumed_count
        /\ last_op.data.before.consumed_count = 0 =>
               unconsumed_count(event_log) =
                   total_count(prev_log)
                       - Min(last_op.data.n, total_count(prev_log))

C13_Witness ==
    /\ ConsumeThenCompact
    /\ last_op.data.before.consumed_count = 0
    /\ last_op.data.n > 0
    /\ last_op.data.n < total_count(prev_log)
    /\ unconsumed_count(event_log) > 0

\* C14: generate_summary on a log with unconsumed_count() = 0 returns none
\* and leaves the entries and the watermark unchanged, at every call.
C14_EmptySummary ==
    (last_op.name = "generate_summary" /\ unconsumed_count(prev_log) = 0) =>
        /\ ~last_op.data.some
        /\ event_log = prev_log

C14_Witness ==
    /\ last_op.name = "generate_summary"
    /\ unconsumed_count(prev_log) = 0
    /\ prev_log.consumed_count > 0

\* The number of unconsumed entries of the log with the tag.
UnconsumedWithTag(log, tag) ==
    Cardinality({i \in (log.consumed_count + 1)..Len(log.events) :
                    log.events[i].event.tag = tag})

RECURSIVE SumOf(_, _)
SumOf(f, keys) ==
    IF keys = {} THEN 0
    ELSE LET k == CHOOSE x \in keys : TRUE
         IN  f[k] + SumOf(f, keys \ {k})

\* C15: generate_summary on a log with u = unconsumed_count() > 0 returns a
\* summary with events_consumed = u whose per-kind counts sum to u and are,
\* for each of the 8 tags, the number of entries [consumed_count, length)
\* with that tag; afterwards unconsumed_count() = 0, the watermark has
\* advanced by u, and the entries are unchanged.
C15_Summary ==
    (last_op.name = "generate_summary" /\ unconsumed_count(prev_log) > 0) =>
        LET u == unconsumed_count(prev_log)
            summary == last_op.data.value
        IN  /\ last_op.data.some
            /\ summary.events_consumed = u
            /\ DOMAIN summary.event_types \subseteq EventTags
            /\ SumOf(summary.event_types, DOMAIN summary.event_types) = u
            /\ \A tag \in EventTags :
                   IF UnconsumedWithTag(prev_log, tag) = 0
                   THEN tag \notin DOMAIN summary.event_types
                   ELSE /\ tag \in DOMAIN summary.event_types
                        /\ summary.event_types[tag] = UnconsumedWithTag(prev_log, tag)
            /\ event_log.consumed_count = prev_log.consumed_count + u
            /\ unconsumed_count(event_log) = 0
            /\ event_log.events = prev_log.events
            /\ total_count(event_log) = total_count(prev_log)

C15_Witness ==
    /\ last_op.name = "generate_summary"
    /\ prev_log.consumed_count > 0
    /\ UnconsumedWithTag(prev_log, "TextTyped") > 0
    /\ UnconsumedWithTag(prev_log, "Escape") > 0
    /\ last_op.data.some

\* C16: deserialize of a stream whose header version is not 1 returns an
\* InvalidFormat error and produces no log, whatever follows the header.
C16_UnknownVersion ==
    (last_op.name = "deserialize" /\ last_op.data.facts.version \notin {None, 1}) =>
        /\ ~last_op.ok
        /\ last_op.data.err = "InvalidFormat"
        /\ pc = "failed"
        /\ event_log = new

C16_Witness ==
    /\ last_op.name = "deserialize"
    /\ last_op.data.facts.version = 2
    /\ last_op.data.facts.m >= 1
    /\ last_op.data.facts.corrupt
    /\ last_op.data.err = "InvalidFormat"

\* C17: deserialize of a version-1 stream whose last entry record is cut
\* part-way or holds invalid bytes returns a Deserialization error, never a
\* log of the entries before it.
C17_TruncatedRecord ==
    (/\ last_op.name = "deserialize"
     /\ last_op.data.facts.version = 1
     /\ last_op.data.facts.truncated \/ last_op.data.facts.corrupt) =>
        /\ ~last_op.ok
        /\ last_op.data.err = "Deserialization"

---------------------------------------------------------------------------
(* SpecEdit: the key-event path of the plugin.                             *)
(*                                                                         *)
(* Every key event goes through State::log_event, which feeds the activity *)
(* ring and the durable path.  The events are drawn from the whole         *)
(* alphabet of the input interface.                                        *)

KeyEvents ==
    {TextTyped(<<97>>), TextTyped(<<195, 169>>), TextTyped(<<32>>), TextTyped(<<>>),
     Backspace(1), Delete(1), Enter}
    \cup {Navigation(d, n, FALSE, FALSE) : d \in {"Left", "Right"}, n \in 1..MaxCount}
    \cup {Navigation(d, 1, FALSE, TRUE) : d \in {"Left", "Right"}}
    \cup {Navigation(d, 1, FALSE, FALSE) : d \in {"Home", "End", "Up"}}

InitEdit ==
    /\ build \in Builds
    /\ pc = "run"
    /\ panicked = FALSE
    /\ event_log = new
    /\ clock = 0
    /\ last_op = Op("init", 0, TRUE, 0)
    /\ prev_log = new
    /\ InitKeyPath
    /\ InitPluginState
    /\ host = Host_after_load("plain")

\* Mutant: the durable path logs every editing key.
log_event_logs_edit_keys(ka, d, event, t) ==
    [keystroke_activity |-> push_event(ka, event),
     durable |-> IF event.tag = "EditControl" THEN seal_and_log(d, event, t)
                 ELSE process_for_event_log(d, event, t),
     panics |-> \/ push_event_panics(ka, event)
                \/ process_for_event_log_panics(d, event)]

\* State::log_event on a ring and a durable state, at clock reading t.
log_event(ka, d, event, t) ==
    [keystroke_activity |-> push_event(ka, event),
     durable |-> process_for_event_log(d, event, t),
     panics |-> \/ push_event_panics(ka, event)
                \/ process_for_event_log_panics(d, event)]

\* The fields of State a handler leaves behind: the ring, the durable
\* fields, and the clock after the handler's readings and one more.
Stores(ka, d) ==
    /\ keystroke_activity' = ka
    /\ live_text' = d.live_text
    /\ live_cursor' = d.live_cursor
    /\ event_log' = d.event_log
    /\ clock' = clock + d.reads + 1

\* History: the buffers and the clock a handler found, kept in
\* last_op.data.
Before ==
    [keystroke_activity |-> keystroke_activity,
     live_text |-> live_text,
     live_cursor |-> live_cursor,
     now |-> now]

\* History: the reference editor is fed the event.
Feeds(event) ==
    /\ fed' = fed \cup feeds(event)
    /\ ref_editor' = IF "sealing" \in fed' THEN RefNew
                     ELSE ref_apply(ref_editor, event)

\* update(Event::Key(key)) and update(Event::InterceptedKeyPress(key)), for a
\* key that classify maps to the event.
Key(event) ==
    LET r == log_event(keystroke_activity,
                       Durable(live_text, live_cursor, event_log, 0), event, now)
    IN  /\ last_op' = Op("log_event", event, ~r.panics, Before)
        /\ prev_log' = event_log
        /\ IF r.panics
           THEN /\ panicked' = TRUE
                /\ UNCHANGED <<event_log, clock, edit_vars>>
           ELSE /\ Stores(r.keystroke_activity, r.durable)
                /\ current_pane_has_activity' = TRUE
                /\ last_activity_time' = now + r.durable.reads
                /\ Feeds(event)
                /\ UNCHANGED panicked
        /\ UNCHANGED <<build, pc, plugin_vars>>

KeyPress ==
    /\ Running
    /\ clock < MaxTime
    /\ \E event \in KeyEvents : Key(event)

NextEdit == KeyPress

SpecEdit == InitEdit /\ [][NextEdit]_vars

---------------------------------------------------------------------------
(* Properties of the edit buffers, checked under SpecEdit.                 *)

\* The live buffer of the activity ring and of the durable path.
RingBuffer ==
    IF keystroke_activity.cursor # None /\ back_is_text(keystroke_activity.events)
    THEN SomeText(back(keystroke_activity.events).text)
    ELSE NoText

RefBuffer ==
    IF ref_editor.text = <<>> THEN NoText ELSE SomeText(flatten(ref_editor.text))

\* C5: after a sequence of TextTyped, Backspace, Delete and Left / Right /
\* Home / End events with no sealing event, the live buffer of the ring and
\* the durable live_text both hold the text of the reference editor fed the
\* same events, and are absent when that text is empty.  Stated for the
\* sequences whose TextTyped events all carry text (the empty TextTyped is
\* the case of C7_NoEmptyText).
C5_EditReconstruction ==
    fed = {} => /\ RingBuffer = RefBuffer
                /\ live_text = RefBuffer

\* C6: a live buffer's cursor is a byte offset within the text and on a
\* scalar boundary, in the ring and in the durable path.
C6_CursorInvariant ==
    /\ RingBuffer.some =>
         /\ 0 <= keystroke_activity.cursor
         /\ keystroke_activity.cursor <= Len(RingBuffer.text)
         /\ is_char_boundary(RingBuffer.text, keystroke_activity.cursor)
    /\ live_text.some =>
         /\ 0 <= live_cursor
         /\ live_cursor <= Len(live_text.text)
         /\ is_char_boundary(live_text.text, live_cursor)

\* Both consumers hold a text with a two-byte scalar and, after a cursor
\* move, a cursor strictly inside the text.
C6_Witness ==
    /\ last_op.name = "log_event"
    /\ last_op.arg.tag = "Navigation"
    /\ RingBuffer.some /\ live_text.some
    /\ \E i \in 1..Len(live_text.text) : is_continuation(live_text.text[i])
    /\ keystroke_activity.cursor > 0
    /\ keystroke_activity.cursor < Len(RingBuffer.text)
    /\ live_cursor > 0
    /\ live_cursor < Len(live_text.text)

\* C7: no TextTyped entry of the ring or of the durable log has empty text,
\* and no consumer holds a live buffer with empty text.
C7_NoEmptyText ==
    /\ \A i \in 1..Len(keystroke_activity.events) :
         keystroke_activity.events[i].tag = "TextTyped"
             => keystroke_activity.events[i].text # <<>>
    /\ \A i \in 1..Len(event_log.events) :
         event_log.events[i].event.tag = "TextTyped"
             => event_log.events[i].event.text # <<>>
    /\ live_text.some => live_text.text # <<>>

---------------------------------------------------------------------------
(* SpecRing: every call sequence of push_event on one KeystrokeActivity.   *)
(*                                                                         *)
(* push_event is public and takes any KeystrokeEvent, so the counts are    *)
(* not only the 1 that classify produces.  clock counts the calls.         *)

\* The events pushed: text, a sealing key, Backspace and Delete runs,
\* Left with every count up to MaxCount and with the largest usize, Left
\* with each modifier, and a second direction.
RingEvents ==
    {TextTyped(<<97>>), Enter}
    \cup {Backspace(n) : n \in 1..MaxCount}
    \cup {Delete(n) : n \in 1..MaxCount}
    \cup {Navigation("Left", n, FALSE, FALSE) : n \in (1..MaxCount) \cup {usize_max}}
    \cup {Navigation("Left", 1, TRUE, FALSE), Navigation("Left", 1, FALSE, TRUE),
          Navigation("Up", 1, FALSE, FALSE)}

InitRing ==
    /\ build \in Builds
    /\ pc = "run"
    /\ panicked = FALSE
    /\ event_log = new
    /\ clock = 0
    /\ last_op = Op("init", 0, TRUE, KeystrokeActivity_new)
    /\ prev_log = new
    /\ InitKeyPath
    /\ InitPluginState
    /\ host = Host_after_load("plain")

\* KeystrokeActivity::push_event(event).  last_op.data is the ring the call
\* was made on (history).
Push(event) ==
    LET panics == push_event_panics(keystroke_activity, event)
    IN  /\ last_op' = Op("push_event", event, ~panics, keystroke_activity)
        /\ panicked' = panics
        /\ keystroke_activity' = IF panics THEN keystroke_activity
                                 ELSE push_event(keystroke_activity, event)
        /\ clock' = clock + 1
        /\ UNCHANGED <<build, pc, event_log, prev_log, live_text, live_cursor,
                       current_pane_has_activity, last_activity_time,
                       ref_editor, fed, plugin_vars>>

RingPush ==
    /\ Running
    /\ clock < MaxPushes
    /\ \E event \in RingEvents : Push(event)

\* A clear that forgets the entries and keeps the cursor.
clear_keeps_cursor(ka) == [events |-> <<>>, cursor |-> ka.cursor]

\* KeystrokeActivity::clear
clear(ka) == [events |-> <<>>, cursor |-> None]

\* KeystrokeActivity::clear().  last_op.data is the ring the call was made on.
RingClear ==
    /\ Running
    /\ clock < MaxPushes
    /\ last_op' = Op("clear", 0, TRUE, keystroke_activity)
    /\ keystroke_activity' = clear(keystroke_activity)
    /\ clock' = clock + 1
    /\ UNCHANGED <<build, pc, panicked, event_log, prev_log, live_text,
                   live_cursor, current_pane_has_activity, last_activity_time,
                   ref_editor, fed, plugin_vars>>

NextRing == RingPush \/ RingClear

SpecRing == InitRing /\ [][NextRing]_vars

---------------------------------------------------------------------------
(* Properties of the activity ring, checked under SpecRing.                *)

\* The last step was a push_event call that returned; RingBefore is the
\* ring it was made on and Pushed_event its argument.
Pushed == last_op.name = "push_event" /\ last_op.ok
RingBefore == last_op.data
Pushed_event == last_op.arg

NoLiveBuffer(ka) == ka.cursor = None

\* The incoming event continues the run of the entry: both Backspace, both
\* Delete, or both Navigation with the same direction and modifiers.
SameRun(entry, incoming) ==
    \/ /\ entry.tag = "EditControl" /\ incoming.tag = "EditControl"
       /\ entry.kind = incoming.kind
       /\ entry.kind \in {"Backspace", "Delete"}
    \/ /\ entry.tag = "Navigation" /\ incoming.tag = "Navigation"
       /\ entry.kind = incoming.kind
       /\ entry.with_shift = incoming.with_shift
       /\ entry.with_ctrl = incoming.with_ctrl

\* The ring has a tail entry whose run the incoming event continues.
TailRun(ka, incoming) ==
    ka.events # <<>> /\ SameRun(ka.events[Len(ka.events)], incoming)

\* The event has to become a new entry of the ring: text without a live
\* buffer, or an event that is neither applied to a live buffer nor merged
\* into the tail.
MustAppend(ka, incoming) ==
    IF incoming.tag = "TextTyped" THEN NoLiveBuffer(ka)
    ELSE IF \/ incoming.tag = "EditControl" /\ incoming.kind \in {"Backspace", "Delete"}
            \/ incoming.tag = "Navigation"
                   /\ incoming.kind \in {"Left", "Right", "Home", "End"}
    THEN NoLiveBuffer(ka) /\ ~TailRun(ka, incoming)
    ELSE ~TailRun(ka, incoming)

\* The ring with the count of its tail entry replaced.
WithTailCount(events, count) ==
    [events EXCEPT ![Len(events)] = [@ EXCEPT !.count = count]]

\* C18: the ring never holds more than KEYSTROKE_LOG_CAPACITY entries; a
\* push that has to append to a ring holding that many evicts exactly the
\* oldest entry and keeps the others in order, the new entry last.
C18_RingCapacity ==
    /\ Len(keystroke_activity.events) <= KEYSTROKE_LOG_CAPACITY
    /\ (/\ Pushed
        /\ Len(RingBefore.events) = KEYSTROKE_LOG_CAPACITY
        /\ MustAppend(RingBefore, Pushed_event)) =>
           keystroke_activity.events = Tail(RingBefore.events) \o <<Pushed_event>>

C18_Witness ==
    /\ Pushed
    /\ Len(RingBefore.events) = KEYSTROKE_LOG_CAPACITY
    /\ MustAppend(RingBefore, Pushed_event)
    /\ RingBefore.events[1] # RingBefore.events[2]
    /\ RingBefore.events[1] # keystroke_activity.events[1]
    /\ Len(keystroke_activity.events) = KEYSTROKE_LOG_CAPACITY

\* C19: a Navigation pushed when no live buffer exists and the tail is a
\* Navigation with the same direction, with_shift and with_ctrl adds no
\* entry and leaves the tail with the sum of both counts; a Navigation that
\* differs from the tail in direction or a modifier becomes a new entry.
C19_NavigationCoalescing ==
    (/\ Pushed
     /\ Pushed_event.tag = "Navigation"
     /\ NoLiveBuffer(RingBefore)
     /\ RingBefore.events # <<>>
     /\ RingBefore.events[Len(RingBefore.events)].tag = "Navigation") =>
        LET tail == RingBefore.events[Len(RingBefore.events)]
        IN  IF SameRun(tail, Pushed_event)
            THEN keystroke_activity.events =
                     WithTailCount(RingBefore.events,
                                   tail.count + Pushed_event.count)
            ELSE keystroke_activity.events \in
                     {RingBefore.events \o <<Pushed_event>>,
                      Tail(RingBefore.events) \o <<Pushed_event>>}

\* C20: Backspace{count b} (Delete{count b}) pushed when no live buffer
\* exists and the tail is Backspace{count a} (Delete{count a}) adds no entry
\* and leaves the tail with count a + b.
C20_EditCoalescing ==
    (/\ Pushed
     /\ Pushed_event.tag = "EditControl"
     /\ Pushed_event.kind \in {"Backspace", "Delete"}
     /\ NoLiveBuffer(RingBefore)
     /\ TailRun(RingBefore, Pushed_event)) =>
        keystroke_activity.events =
            WithTailCount(RingBefore.events,
                          RingBefore.events[Len(RingBefore.events)].count
                              + Pushed_event.count)

---------------------------------------------------------------------------
(* SpecPlugin: the plugin process, its host and the event-log file.        *)
(*                                                                         *)
(* One action per event the host delivers to update(); the host runs the   *)
(* read and write commands on the file between the events; the process may *)
(* crash between two events and is then started again.  Each reading of    *)
(* the clock is later than the one before, so an entry is identified by    *)
(* its event and timestamp.                                                *)

Panes == {"pane 1", "pane 2"}

\* The event classify produces for a printable key.
ClassifiedKeys == {TextTyped(<<97>>)}

\* The plugin is the release build for the 32-bit target, started in a git
\* repository that is not a submodule.
InitPlugin ==
    /\ build = [usize_max |-> USIZE_MAX_32, overflow_checks |-> FALSE]
    /\ pc = "run"
    /\ panicked = FALSE
    /\ event_log = new
    /\ clock = 0
    /\ last_op = Op("init", 0, TRUE, NoHistory)
    /\ prev_log = new
    /\ InitKeyPath
    /\ InitPluginState
    /\ host = Host_after_load("repo")

\* pending_summaries.push(summary), dropping the oldest beyond the capacity.
push_summary(summaries, summary) ==
    IF ~summary.some THEN summaries
    ELSE LET pushed == Append(summaries, summary.value)
         IN  IF Len(pushed) > PENDING_SUMMARIES_CAPACITY THEN Tail(pushed) ELSE pushed

\* A handler that does not summarize.
no_cycle(d) ==
    [durable |-> d, due |-> FALSE, summary |-> NoSummary, entries |-> <<>>,
     data |-> <<>>]

\* seal_pending_text, then, if anything is unconsumed, generate_summary and
\* serialize (main.rs:256-269 and 390-399).  entries are the entries the
\* summary was made of.
summary_cycle(d, t) ==
    LET flushed == seal_pending_text(d, t)
        due     == unconsumed_count(flushed.event_log) > 0
        made    == generate_summary(flushed.event_log)
    IN  IF ~due THEN no_cycle(flushed)
        ELSE [durable |-> [flushed EXCEPT !.event_log = made.log],
              due     |-> TRUE,
              summary |-> made.summary,
              entries |-> IF made.summary.some THEN unconsumed(flushed.event_log)
                          ELSE <<>>,
              data    |-> serialize(made.log)]

\* What a summarizing handler leaves behind besides the durable fields: the
\* summary is kept, and EventLogIO::save records the bytes and issues the
\* write command, or does nothing when no log path is set.
Summarizes(cycle) ==
    /\ pending_summaries' = push_summary(pending_summaries, cycle.summary)
    /\ summarized' = summarized \cup Range(cycle.entries)
    /\ unsaved' = unsaved \cup Range(cycle.entries)
    /\ IF cycle.due /\ event_log_io.log_path # NoPath
       THEN /\ event_log_io' = [event_log_io EXCEPT
                                   !.pending_write = SomeData(cycle.data)]
            /\ host' = run_command(host, "WriteEventLog", event_log_io.log_path,
                                   cycle.data, summarized')
       ELSE UNCHANGED <<event_log_io, host>>

\* update(Event::PermissionRequestResult(Granted)); RootDiscovery::start
PermissionGranted ==
    /\ Running
    /\ host.permission_pending
    /\ permissions_granted' = TRUE
    /\ discovery' = [discovery EXCEPT !.initial_cwd = InitialCwd,
                                      !.phase = FindingGitRoot]
    /\ host' = run_command([host EXCEPT !.permission_pending = FALSE],
                           "GitToplevel", NoPath, <<>>, {})
    /\ last_op' = Op("PermissionRequestResult", "Granted", TRUE, NoHistory)
    /\ prev_log' = event_log
    /\ UNCHANGED <<build, pc, panicked, event_log, clock, edit_vars,
                   focused_pane, event_log_io, pending_summaries,
                   last_summary_time, epoch, summarized, unsaved, lost>>

\* update(Event::PermissionRequestResult(Denied))
PermissionDenied ==
    /\ Running
    /\ host.permission_pending
    /\ discovery' = [discovery EXCEPT !.phase = Failed]
    /\ host' = [host EXCEPT !.permission_pending = FALSE]
    /\ last_op' = Op("PermissionRequestResult", "Denied", TRUE, NoHistory)
    /\ prev_log' = event_log
    /\ UNCHANGED <<build, pc, panicked, event_log, clock, edit_vars,
                   permissions_granted, focused_pane, event_log_io,
                   pending_summaries, last_summary_time, epoch, summarized,
                   unsaved, lost>>

RECURSIVE run_mkdirs(_, _)
run_mkdirs(h, roots) ==
    IF roots = <<>> THEN h
    ELSE run_mkdirs(run_command(h, "MkdirCrumbeez", crumbeez_dir(Head(roots)),
                                <<>>, {}),
                    Tail(roots))

\* Directories awaited without a `mkdir -p` being run for them.
create_crumbeez_dirs_without_mkdir(disc, h, roots) ==
    [discovery |-> [disc EXCEPT !.phase =
                       CreatingDirs(Len(roots),
                                    [i \in 1..Len(roots) |-> crumbeez_dir(roots[i])])],
     host |-> h]

\* RootDiscovery::create_crumbeez_dirs
create_crumbeez_dirs(disc, h, roots) ==
    [discovery |-> [disc EXCEPT !.phase =
                       CreatingDirs(Len(roots),
                                    [i \in 1..Len(roots) |-> crumbeez_dir(roots[i])])],
     host |-> run_mkdirs(h, roots)]

\* A command of the running process that the host is to answer.
Answerable(cmd, purpose) ==
    /\ cmd \in host.commands
    /\ cmd.purpose = purpose
    /\ cmd.owner = epoch

\* update(Event::RunCommandResult) for `git rev-parse --show-toplevel`:
\* handle_git_toplevel.  The command prints a root when run in a repository.
GitToplevelResult ==
    /\ Running
    /\ \E cmd \in host.commands :
         /\ Answerable(cmd, "GitToplevel")
         /\ LET h == [host EXCEPT !.commands = @ \ {cmd}]
                created == create_crumbeez_dirs(discovery, h, <<InitialCwd>>)
            IN  IF host.env # "plain"
                THEN /\ discovery' = [discovery EXCEPT !.git_root = GitRoot,
                                                       !.phase = FindingSuperproject]
                     /\ host' = run_command(h, "GitSuperproject", NoPath, <<>>, {})
                ELSE /\ discovery' = created.discovery
                     /\ host' = created.host
    /\ last_op' = Op("RunCommandResult", "GitToplevel", TRUE, NoHistory)
    /\ prev_log' = event_log
    /\ UNCHANGED <<build, pc, panicked, event_log, clock, edit_vars,
                   permissions_granted, focused_pane, event_log_io,
                   pending_summaries, last_summary_time, epoch, summarized,
                   unsaved, lost>>

\* update(Event::RunCommandResult) for
\* `git rev-parse --show-superproject-working-tree`: handle_git_superproject.
GitSuperprojectResult ==
    /\ Running
    /\ \E cmd \in host.commands :
         /\ Answerable(cmd, "GitSuperproject")
         /\ LET h == [host EXCEPT !.commands = @ \ {cmd}]
                own == IF discovery.git_root # NoPath
                       THEN <<discovery.git_root>> ELSE <<>>
                created ==
                    IF host.env = "submodule"
                    THEN create_crumbeez_dirs(
                             [discovery EXCEPT !.parent_git_root = ParentRoot],
                             h, own \o <<ParentRoot>>)
                    ELSE create_crumbeez_dirs(discovery, h, own)
            IN  /\ discovery' = created.discovery
                /\ host' = created.host
    /\ last_op' = Op("RunCommandResult", "GitSuperproject", TRUE, NoHistory)
    /\ prev_log' = event_log
    /\ UNCHANGED <<build, pc, panicked, event_log, clock, edit_vars,
                   permissions_granted, focused_pane, event_log_io,
                   pending_summaries, last_summary_time, epoch, summarized,
                   unsaved, lost>>

\* A handler that enters Ready on the first mkdir result.
handle_mkdir_result_ready_at_once(phase) ==
    IF phase.name # "CreatingDirs" THEN phase ELSE Ready(phase.dirs)

\* RootDiscovery::handle_mkdir_result
handle_mkdir_result(phase) ==
    IF phase.name # "CreatingDirs" THEN phase
    ELSE IF phase.pending <= 1 THEN Ready(phase.dirs)
    ELSE CreatingDirs(phase.pending - 1, phase.dirs)

\* update(Event::RunCommandResult) for a `mkdir -p`, which succeeded or
\* failed: handle_mkdir_result and, on entering Ready, handle_discovery_ready
\* (set_log_path, load, reset_inactivity_timer).
MkdirResult ==
    /\ Running
    /\ \E cmd \in host.commands, exit_ok \in BOOLEAN :
         /\ Answerable(cmd, "MkdirCrumbeez")
         /\ LET was_creating == discovery.phase.name = "CreatingDirs"
                phase == handle_mkdir_result(discovery.phase)
                h == [host EXCEPT !.commands = @ \ {cmd},
                                  !.dirs = IF exit_ok THEN @ \cup {cmd.path} ELSE @]
            IN  /\ discovery' = [discovery EXCEPT !.phase = phase]
                /\ IF was_creating /\ phase.name = "Ready" /\ phase.dirs # <<>>
                   THEN /\ event_log_io' =
                             [event_log_io EXCEPT !.log_path =
                                 event_log_path_from_crumbeez_dir(phase.dirs[1])]
                        /\ host' = run_command([h EXCEPT !.timers = @ + 1],
                                               "ReadEventLog",
                                               event_log_io'.log_path, <<>>, {})
                   ELSE /\ host' = h
                        /\ UNCHANGED event_log_io
         /\ last_op' = Op("RunCommandResult", "MkdirCrumbeez", exit_ok, NoHistory)
    /\ prev_log' = event_log
    /\ UNCHANGED <<build, pc, panicked, event_log, clock, edit_vars,
                   permissions_granted, focused_pane, pending_summaries,
                   last_summary_time, epoch, summarized, unsaved, lost>>

\* The directory of a file.
parent(path) == SubSeq(path, 1, Len(path) - 1)

\* The host runs `if [ -f path ]; then base64 path; fi`.
HostRunsRead ==
    \E cmd \in host.commands :
      /\ cmd.purpose = "ReadEventLog"
      /\ ~cmd.done
      /\ host' = [host EXCEPT !.commands = (@ \ {cmd}) \cup
                     {[cmd EXCEPT !.done = TRUE,
                                  !.exit_ok = TRUE,
                                  !.stdout = IF host.file.exists
                                             THEN base64_encode(host.file.data)
                                             ELSE base64_encode(<<>>),
                                  !.sat = host.file.sat]}]
      /\ last_op' = Op("host", "ReadEventLog", TRUE, NoHistory)
      /\ prev_log' = event_log
      /\ UNCHANGED <<build, pc, panicked, event_log, clock, edit_vars,
                     discovery, permissions_granted, focused_pane, event_log_io,
                     pending_summaries, last_summary_time, epoch, summarized,
                     unsaved, lost>>

\* The host runs `printf '%s' b64 | base64 -d > path`: the file receives the
\* bytes when its directory exists, and the command fails otherwise.  The
\* command of a process that has crashed is still run.
HostRunsWrite ==
    \E cmd \in host.commands :
      /\ cmd.purpose = "WriteEventLog"
      /\ ~cmd.done
      /\ LET written == parent(cmd.path) \in host.dirs
             answered == IF cmd.owner = epoch
                         THEN {[cmd EXCEPT !.done = TRUE, !.exit_ok = written]}
                         ELSE {}
         IN  /\ host' = [host EXCEPT
                            !.commands = (@ \ {cmd}) \cup answered,
                            !.file = IF written
                                     THEN [exists |-> TRUE,
                                           data |-> base64_decode(base64_encode(cmd.data)),
                                           sat |-> cmd.sat]
                                     ELSE @]
             /\ unsaved' = IF written THEN unsaved \ cmd.sat ELSE unsaved
             /\ last_op' = Op("host", "WriteEventLog", written, NoHistory)
      /\ prev_log' = event_log
      /\ UNCHANGED <<build, pc, panicked, event_log, clock, edit_vars,
                     discovery, permissions_granted, focused_pane, event_log_io,
                     pending_summaries, last_summary_time, epoch, summarized,
                     lost>>

\* Mutant: a load that fails leaves the empty log of the failed result.
handle_result_resets_on_failure(exit_ok, stdout, log) ==
    LET loaded == deserialize(base64_decode(stdout))
        read == exit_ok /\ stdout # base64_encode(<<>>)
    IN  [handled |-> TRUE,
         installs |-> read /\ loaded.ok,
         failed |-> read /\ ~loaded.ok,
         event_log |-> IF read THEN loaded.log ELSE log]

\* EventLogIO::handle_result for the ReadEventLog purpose: the log read is
\* installed when the command succeeded, printed something, and the bytes
\* deserialize; base64_decode never fails.  failed tells that there were
\* bytes and they did not deserialize.
handle_result(exit_ok, stdout, log) ==
    LET loaded == deserialize(base64_decode(stdout))
        read == exit_ok /\ stdout # base64_encode(<<>>)
    IN  [handled |-> TRUE,
         installs |-> read /\ loaded.ok,
         failed |-> read /\ ~loaded.ok,
         event_log |-> IF read /\ loaded.ok THEN loaded.log ELSE log]

\* update(Event::RunCommandResult) for the read command.  last_op.ok tells
\* whether a log was installed, last_op.data is the history of the bytes
\* read and what handle_result made of them.
ReadEventLogResult ==
    /\ Running
    /\ \E cmd \in host.commands :
         /\ Answerable(cmd, "ReadEventLog")
         /\ cmd.done
         /\ LET r == handle_result(cmd.exit_ok, cmd.stdout, event_log)
            IN  /\ event_log' = r.event_log
                /\ last_op' = Op("RunCommandResult", "ReadEventLog", r.installs,
                                 [sat |-> cmd.sat, handled |-> r.handled,
                                  failed |-> r.failed])
         /\ host' = [host EXCEPT !.commands = @ \ {cmd}]
    /\ prev_log' = event_log
    /\ UNCHANGED <<build, pc, panicked, clock, edit_vars,
                   discovery, permissions_granted, focused_pane, event_log_io,
                   pending_summaries, last_summary_time, epoch, summarized,
                   unsaved, lost>>

\* update(Event::RunCommandResult) for the write command:
\* EventLogIO::handle_result, WriteEventLog.
WriteEventLogResult ==
    /\ Running
    /\ \E cmd \in host.commands :
         /\ Answerable(cmd, "WriteEventLog")
         /\ cmd.done
         /\ host' = [host EXCEPT !.commands = @ \ {cmd}]
         /\ last_op' = Op("RunCommandResult", "WriteEventLog", cmd.exit_ok, NoHistory)
    /\ event_log_io' = [event_log_io EXCEPT !.pending_write = NoData]
    /\ prev_log' = event_log
    /\ UNCHANGED <<build, pc, panicked, event_log, clock, edit_vars,
                   discovery, permissions_granted, focused_pane,
                   pending_summaries, last_summary_time, epoch, summarized,
                   unsaved, lost>>

\* update(Event::Key) and update(Event::InterceptedKeyPress) in the plugin.
PluginKeyPress ==
    /\ Running
    /\ clock < MaxPluginTime
    /\ \E event \in ClassifiedKeys : Key(event)

\* update(Event::PaneUpdate) with a focused pane other than focused_pane:
\* handle_pane_update.  A manifest without a focused pane, or with the same
\* one, changes nothing.
PaneUpdate ==
    /\ Running
    /\ clock < MaxPluginTime
    /\ \E pane \in Panes :
         /\ focused_pane # pane
         /\ LET d0 == Durable(live_text, live_cursor, event_log, 0)
                cycle == IF current_pane_has_activity
                         THEN summary_cycle(d0, now) ELSE no_cycle(d0)
                event == PaneFocused(pane)
                r == log_event(keystroke_activity, cycle.durable, event,
                               now + cycle.durable.reads)
            IN  /\ Summarizes(cycle)
                /\ focused_pane' = pane
                /\ Stores(r.keystroke_activity, r.durable)
                /\ current_pane_has_activity' = TRUE
                /\ last_activity_time' = now + r.durable.reads
                /\ Feeds(event)
                /\ last_op' = Op("PaneUpdate", event, cycle.due, Before)
    /\ prev_log' = event_log
    /\ UNCHANGED <<build, pc, panicked, discovery, permissions_granted,
                   last_summary_time, epoch, lost>>

\* update(Event::Timer).  Whether the last activity is INACTIVITY_TIMER_SECS
\* old depends on the time the event arrives at.
Timer ==
    /\ Running
    /\ clock < MaxPluginTime
    /\ host.timers > 0
    /\ \E inactive \in BOOLEAN :
         LET should_summarize ==
                 /\ last_activity_time # None
                 /\ inactive
                 /\ \/ last_summary_time = None
                    \/ last_activity_time > last_summary_time
             d0 == Durable(live_text, live_cursor, event_log, 0)
             cycle == IF should_summarize
                      THEN summary_cycle(d0, now) ELSE no_cycle(d0)
         IN  /\ Summarizes(cycle)
             /\ last_summary_time' = IF cycle.due THEN now + cycle.durable.reads
                                     ELSE last_summary_time
             /\ Stores(keystroke_activity, cycle.durable)
             /\ fed' = IF should_summarize THEN fed \cup {"sealing"} ELSE fed
             /\ last_op' = Op("Timer", 0, cycle.due, NoHistory)
    /\ prev_log' = event_log
    /\ UNCHANGED <<build, pc, panicked, current_pane_has_activity,
                   last_activity_time, ref_editor, discovery,
                   permissions_granted, focused_pane, epoch, lost>>

\* The plugin process dies and is started again: State::default() and
\* ZellijPlugin::load.  Timeouts and unanswered commands of the dead process
\* are gone, except that a write the host has not run yet is still run.
CrashRestart ==
    /\ pc = "run"
    /\ epoch < MaxCrashes
    /\ epoch' = epoch + 1
    /\ lost' = unsaved
    /\ panicked' = FALSE
    /\ event_log' = new
    /\ keystroke_activity' = KeystrokeActivity_new
    /\ live_text' = NoText
    /\ live_cursor' = 0
    /\ current_pane_has_activity' = FALSE
    /\ last_activity_time' = None
    /\ ref_editor' = RefNew
    /\ fed' = {}
    /\ discovery' = RootDiscovery_default
    /\ permissions_granted' = FALSE
    /\ focused_pane' = NoPane
    /\ event_log_io' = EventLogIO_new
    /\ pending_summaries' = <<>>
    /\ last_summary_time' = None
    /\ host' = [host EXCEPT
                   !.permission_pending = TRUE,
                   !.timers = 0,
                   !.commands = {cmd \in @ : cmd.purpose = "WriteEventLog" /\ ~cmd.done}]
    /\ last_op' = Op("restart", 0, TRUE, NoHistory)
    /\ prev_log' = event_log
    /\ UNCHANGED <<build, pc, clock, summarized, unsaved>>

NextPlugin ==
    \/ PermissionGranted
    \/ PermissionDenied
    \/ GitToplevelResult
    \/ GitSuperprojectResult
    \/ MkdirResult
    \/ HostRunsRead
    \/ HostRunsWrite
    \/ ReadEventLogResult
    \/ WriteEventLogResult
    \/ PluginKeyPress
    \/ PaneUpdate
    \/ Timer
    \/ CrashRestart

SpecPlugin == InitPlugin /\ [][NextPlugin]_vars

---------------------------------------------------------------------------
(* Properties of summaries and saves, checked under SpecPlugin.            *)

\* The entries a log marks as consumed.
ConsumedEntries(log) ==
    {log.events[i] : i \in 1..Min(log.consumed_count, Len(log.events))}

\* The read result has just installed the log read from the file.
Reloaded == last_op.name = "RunCommandResult" /\ last_op.arg = "ReadEventLog"
            /\ last_op.ok

---------------------------------------------------------------------------
(* Properties of the in-memory log and of the saves, checked under         *)
(* SpecPlugin.                                                             *)

\* The handler of the last step was given the result of the read command.
ReadResultHandled ==
    last_op.name = "RunCommandResult" /\ last_op.arg = "ReadEventLog"

\* C21: between two starts of the plugin, an entry leaves the in-memory log
\* only through the eviction of an append that finds the log at capacity (the
\* plugin never calls compact); in particular, handling the result of the
\* read command discards no entry that was appended before the result
\* arrived.  A handler appends at most two entries.
C21_EntriesDestroyedOnlyByEviction ==
    (last_op.name # "restart" /\ Removed # {}) =>
        /\ ~ReadResultHandled
        /\ Len(prev_log.events) + 2 > EVENT_LOG_CAPACITY

\* A summary was produced by the handler of the last step.
SummaryProduced == last_op.name \in {"PaneUpdate", "Timer"} /\ last_op.ok

\* The write command issued by the handler of the last step: the one whose
\* bytes were serialized when the entries summarized so far were consumed.
SavesIssued ==
    {cmd \in host.commands :
        /\ cmd.purpose = "WriteEventLog"
        /\ cmd.owner = epoch
        /\ cmd.id = host.issued - 1
        /\ cmd.sat = summarized}

\* C22: a handler that produces a summary (pane switch or inactivity timer)
\* issues a save in the same step, and the saved bytes are the log with
\* the watermark advanced over every entry.
C22_SummaryIsSaved ==
    SummaryProduced =>
        \E cmd \in SavesIssued :
            LET saved == deserialize(cmd.data)
            IN  /\ saved.ok
                /\ event_log_io.pending_write = SomeData(cmd.data)
                /\ Len(saved.log.events) > 0
                /\ saved.log.consumed_count = Len(saved.log.events)

---------------------------------------------------------------------------
(* SpecLoad: the first session of the plugin on a log file found on disk.  *)
(*                                                                         *)
(* The file holds any byte stream: one an earlier session saved whole, one *)
(* cut short, one damaged, or one of another version.  The session runs    *)
(* root discovery and the read command while pane focus changes append to  *)
(* the in-memory log.                                                      *)

\* The files found: streams of at most MaxFileEntries entry records (and
\* the beginning of one more) whose header names no larger watermark.
FilesOnDisk ==
    {data \in Streams : /\ StreamFacts(data).m <= MaxFileEntries
                        /\ StreamFacts(data).c <= MaxFileEntries}

InitLoad ==
    /\ build = [usize_max |-> USIZE_MAX_32, overflow_checks |-> FALSE]
    /\ pc = "run"
    /\ panicked = FALSE
    /\ event_log = new
    /\ clock = 0
    /\ last_op = Op("init", 0, TRUE, NoHistory)
    /\ prev_log = new
    /\ InitKeyPath
    /\ InitPluginState
    /\ \E data \in FilesOnDisk :
         host = [Host_after_load("repo") EXCEPT
                    !.file = [exists |-> TRUE, data |-> data, sat |-> {}]]

NextLoad ==
    \/ PermissionGranted
    \/ GitToplevelResult
    \/ GitSuperprojectResult
    \/ MkdirResult
    \/ HostRunsRead
    \/ ReadEventLogResult
    \/ PaneUpdate

SpecLoad == InitLoad /\ [][NextLoad]_vars

\* The bytes read did not deserialize.
LoadFailed == ReadResultHandled /\ last_op.data.failed

---------------------------------------------------------------------------
(* SpecSession: the events the plugin itself feeds to log_event.           *)
(*                                                                         *)
(* Keys reach log_event through classify, which yields a count of 1, no    *)
(* Ctrl on a Navigation, and the text of one character; pane focus changes *)
(* reach it through handle_pane_update.  Root discovery has not finished,  *)
(* so no log path is set.                                                  *)

\* The range of classify on printable keys, the editing keys, the cursor
\* keys (with and without Shift), and a sealing key of each kind.
ClassifiedEvents ==
    {TextTyped(<<97>>), TextTyped(<<195, 169>>), TextTyped(<<32>>),
     Backspace(1), Delete(1), Enter}
    \cup {Navigation(d, 1, FALSE, FALSE) : d \in {"Left", "Right", "Home", "End", "Up"}}
    \cup {Navigation("Left", 1, TRUE, FALSE)}

ClassifiedKeyPress ==
    /\ Running
    /\ clock < MaxTime
    /\ \E event \in ClassifiedEvents : Key(event)

NextSession ==
    \/ ClassifiedKeyPress
    \/ PaneUpdate

SpecSession == InitEdit /\ [][NextSession]_vars

---------------------------------------------------------------------------
(* The capacity of a log made by new(), checked under SpecLog.             *)

\* C25: a log created by new() never holds more than EVENT_LOG_CAPACITY
\* entries, whatever sequence of append, consume and compact (and
\* generate_summary) is applied to it.
C25_CapacityBound ==
    pc = "run" => total_count(event_log) <= EVENT_LOG_CAPACITY

\* An append on a full log made by new() has left it full.
C25_Witness ==
    /\ pc = "run"
    /\ last_op.name = "append"
    /\ last_op.ok
    /\ Len(prev_log.events) = EVENT_LOG_CAPACITY
    /\ total_count(event_log) = EVENT_LOG_CAPACITY

---------------------------------------------------------------------------
(* Sealing in the ring, checked under SpecRing.                            *)

\* The ring holds a live buffer: a cursor into the TextTyped entry at its
\* tail.
LiveBuffer(ka) ==
    /\ ka.cursor # None
    /\ ka.events # <<>>
    /\ ka.events[Len(ka.events)].tag = "TextTyped"

\* The texts of the TextTyped entries, oldest first.
TextsOf(events) ==
    LET is_text(e) == e.tag = "TextTyped"
        texts == SelectSeq(events, is_text)
    IN  [i \in 1..Len(texts) |-> texts[i].text]

\* The texts of the sealed TextTyped entries: all but a live buffer.
SealedTexts(ka) ==
    TextsOf(IF LiveBuffer(ka) THEN SubSeq(ka.events, 1, Len(ka.events) - 1)
            ELSE ka.events)

\* kept holds the texts of before in order, but for an evicted oldest one.
KeptTexts(before, kept) ==
    \E d \in 0..1 :
        /\ d <= Len(before)
        /\ Len(before) - d <= Len(kept)
        /\ SubSeq(before, d + 1, Len(before)) = SubSeq(kept, 1, Len(before) - d)

\* C26: a sealing event pushed on a ring with a live buffer leaves the
\* TextTyped entry in the ring with its text unchanged, the sealing event
\* directly after it, and no live buffer; no push_event changes the text of
\* a sealed TextTyped entry; and text pushed when there is no live buffer
\* starts a new entry.
C26_RingSealing ==
    Pushed =>
        LET ring == keystroke_activity
            n == Len(ring.events)
        IN  /\ (LiveBuffer(RingBefore) /\ is_sealing(Pushed_event)) =>
                   /\ ring.cursor = None
                   /\ n >= 2
                   /\ ring.events[n] = Pushed_event
                   /\ ring.events[n - 1] = back(RingBefore.events)
            /\ KeptTexts(SealedTexts(RingBefore), TextsOf(ring.events))
            /\ (~LiveBuffer(RingBefore) /\ Pushed_event.tag = "TextTyped") =>
                   /\ ring.events[n] = Pushed_event
                   /\ ring.cursor = Len(Pushed_event.text)
                   /\ KeptTexts(TextsOf(RingBefore.events),
                                SubSeq(TextsOf(ring.events), 1,
                                       Len(TextsOf(ring.events)) - 1))

\* Text pushed after a buffer was sealed has started a second TextTyped
\* entry behind the sealed one and its sealing event.
C26_Witness ==
    /\ Pushed
    /\ Pushed_event.tag = "TextTyped"
    /\ Len(keystroke_activity.events) = 3
    /\ keystroke_activity.events[1].tag = "TextTyped"
    /\ is_sealing(keystroke_activity.events[2])
    /\ keystroke_activity.events[3] = Pushed_event
    /\ Len(keystroke_activity.events[1].text) > Len(Pushed_event.text)

---------------------------------------------------------------------------
(* Sealing in the durable path, checked under SpecSession.                 *)

\* The handler of the last step sealed: log_event of a sealing key, or a
\* pane focus change (seal_pending_text on the way to a summary, then
\* log_event of PaneFocused).
DurableSealed ==
    \/ last_op.name = "log_event" /\ last_op.ok /\ is_sealing(last_op.arg)
    \/ last_op.name = "PaneUpdate"

\* The entries the handler of the last step appended: those stamped with a
\* clock reading of its own, whether still in the log or evicted after a
\* summary.
AppendedByHandler ==
    {entry \in summarized \cup Range(event_log.events) :
        entry.timestamp_ms >= last_op.data.now}

\* C27: a sealing event that finds non-empty live text appends
\* TextTyped(live text) and then the event, adjacent and in that order, and
\* leaves no buffer (absent, cursor 0); one that finds no live text appends
\* only the event; seal_pending_text, called before a summary, appends only
\* the TextTyped entry (which the summary then covers, unlike the event
\* logged after it) and leaves no buffer.
C27_DurableSealing ==
    DurableSealed =>
        LET before == last_op.data
            had_text == before.live_text.some /\ before.live_text.text # <<>>
            sealed == LogEntry(TextTyped(before.live_text.text), before.now)
            trigger == LogEntry(last_op.arg,
                                IF had_text THEN before.now + 1 ELSE before.now)
            n == Len(event_log.events)
        IN  /\ live_text = NoText
            /\ live_cursor = 0
            /\ AppendedByHandler = IF had_text THEN {sealed, trigger} ELSE {trigger}
            /\ n >= 1
            /\ event_log.events[n] = trigger
            /\ (had_text /\ last_op.name = "log_event") =>
                   /\ n >= 2
                   /\ event_log.events[n - 1] = sealed
            /\ (had_text /\ last_op.name = "PaneUpdate") =>
                   /\ sealed \in summarized
                   /\ trigger \notin summarized

\* A sealing key has found live text of two scalars and a log that already
\* held an entry.
C27_Witness ==
    /\ last_op.name = "log_event"
    /\ last_op.ok
    /\ is_sealing(last_op.arg)
    /\ last_op.data.live_text.some
    /\ Len(last_op.data.live_text.text) >= 2
    /\ Len(prev_log.events) >= 1
    /\ Len(event_log.events) = EVENT_LOG_CAPACITY

---------------------------------------------------------------------------
(* Editing keys and cursor moves on a live buffer, checked under SpecEdit. *)
(* last_op.data holds the ring and the durable buffer log_event found.     *)

\* log_event has returned from the event of the last step.
Logged == last_op.name = "log_event" /\ last_op.ok

\* C28: with a live buffer, Backspace at cursor 0 and Delete at the end of
\* the text change nothing in either consumer: text and cursor stay, the
\* buffer stays live, and no entry is appended to, merged into or removed
\* from the ring or the log.
C28_BoundarySwallow ==
    Logged =>
        LET ring == last_op.data.keystroke_activity
            text == last_op.data.live_text
            cursor == last_op.data.live_cursor
            at_boundary(offset, len) ==
                \/ last_op.arg.kind = "Backspace" /\ offset = 0
                \/ last_op.arg.kind = "Delete" /\ offset = len
        IN  last_op.arg.tag = "EditControl" =>
              /\ (/\ LiveBuffer(ring)
                  /\ at_boundary(ring.cursor, Len(back(ring.events).text))) =>
                     keystroke_activity = ring
              /\ (text.some /\ at_boundary(cursor, Len(text.text))) =>
                     /\ live_text = text
                     /\ live_cursor = cursor
                     /\ event_log = prev_log

\* Backspace has met the start of a non-empty live buffer in both consumers.
C28_Witness ==
    /\ Logged
    /\ last_op.arg = Backspace(1)
    /\ LiveBuffer(keystroke_activity)
    /\ keystroke_activity.cursor = 0
    /\ keystroke_activity = last_op.data.keystroke_activity
    /\ live_text.some
    /\ live_text.text # <<>>
    /\ live_cursor = 0
    /\ live_text = last_op.data.live_text

\* The byte offset reached from offset in text by moving count scalars to
\* the left or to the right, stopping at the ends of the text.
ScalarsMoved(text, offset, kind, count) ==
    LET all == scalars(text)
        at == Len(scalars(SubSeq(text, 1, offset)))
        to == IF kind = "Left"
              THEN (IF count >= at THEN 0 ELSE at - count)
              ELSE Min(Len(all), at + count)
    IN  Len(flatten(SubSeq(all, 1, to)))

\* C29: with a live buffer, Navigation Left or Right without Ctrl and with
\* repeat count c moves the cursor exactly c scalar boundaries, stopping at
\* 0 or at the end of the text, in the ring and in the durable path alike,
\* and neither changes the text nor appends an entry.
C29_CursorMovesByCount ==
    Logged =>
        LET ring == last_op.data.keystroke_activity
            text == last_op.data.live_text
            cursor == last_op.data.live_cursor
            event == last_op.arg
        IN  (/\ event.tag = "Navigation"
             /\ event.kind \in {"Left", "Right"}
             /\ ~event.with_ctrl) =>
              /\ LiveBuffer(ring) =>
                   /\ keystroke_activity.events = ring.events
                   /\ keystroke_activity.cursor =
                          ScalarsMoved(back(ring.events).text, ring.cursor,
                                       event.kind, event.count)
              /\ text.some =>
                   /\ live_text = text
                   /\ event_log = prev_log
                   /\ live_cursor =
                          ScalarsMoved(text.text, cursor, event.kind, event.count)

\* The byte offset the word rule for Ctrl+Right names: past the end of the
\* current word and on to the start of the next word, or the end of the
\* text when no word follows.
NextWordStart(text, offset) ==
    LET all == scalars(text)
        at == Len(scalars(SubSeq(text, 1, offset)))
    IN  Len(flatten(SubSeq(all, 1, ref_word_right(all, at))))

\* C30: with a live buffer, Navigation Right with Ctrl moves the cursor past
\* the end of the current word and on to the start of the next word, or to
\* the end of the buffer when there is no next word, in the ring and in the
\* durable path.
C30_CtrlRight ==
    Logged =>
        LET ring == last_op.data.keystroke_activity
            text == last_op.data.live_text
            cursor == last_op.data.live_cursor
            event == last_op.arg
        IN  (event.tag = "Navigation" /\ event.kind = "Right" /\ event.with_ctrl) =>
              /\ LiveBuffer(ring) =>
                   keystroke_activity.cursor =
                       NextWordStart(back(ring.events).text, ring.cursor)
              /\ text.some =>
                   live_cursor = NextWordStart(text.text, cursor)

\* The byte offset the word rule for Ctrl+Left names: left over the
\* non-word scalars next to the cursor, then over the word left of them, to
\* that word's first scalar; 0 when no word lies to the left.
WordStartLeft(text, offset) ==
    LET all == scalars(text)
        at == Len(scalars(SubSeq(text, 1, offset)))
    IN  Len(flatten(SubSeq(all, 1, ref_word_left(all, at))))

\* C31: with a live buffer, Navigation Left with Ctrl moves the cursor over
\* the non-word characters immediately left of it and then over the
\* contiguous word left of them, to that word's first scalar, or to 0 when
\* no word lies to the left; the new cursor is a scalar boundary not beyond
\* the old one.  In the ring and in the durable path.
C31_CtrlLeft ==
    Logged =>
        LET ring == last_op.data.keystroke_activity
            text == last_op.data.live_text
            cursor == last_op.data.live_cursor
            event == last_op.arg
        IN  (event.tag = "Navigation" /\ event.kind = "Left" /\ event.with_ctrl) =>
              /\ LiveBuffer(ring) =>
                   /\ keystroke_activity.cursor =
                          WordStartLeft(back(ring.events).text, ring.cursor)
                   /\ keystroke_activity.cursor <= ring.cursor
                   /\ is_char_boundary(back(ring.events).text,
                                       keystroke_activity.cursor)
                   /\ keystroke_activity.events = ring.events
              /\ text.some =>
                   /\ live_cursor = WordStartLeft(text.text, cursor)
                   /\ live_cursor <= cursor
                   /\ is_char_boundary(text.text, live_cursor)
                   /\ live_text = text

\* Ctrl+Left has crossed a non-word scalar and a word and stopped at the
\* word's start, behind an earlier scalar, in both consumers.
C31_Witness ==
    /\ Logged
    /\ last_op.arg = Navigation("Left", 1, FALSE, TRUE)
    /\ live_text.some
    /\ live_cursor > 0
    /\ live_cursor + 2 <= last_op.data.live_cursor
    /\ ~is_word_char(live_text.text, prev_char_boundary(live_text.text,
                                                        last_op.data.live_cursor))
    /\ LiveBuffer(keystroke_activity)
    /\ keystroke_activity.cursor = live_cursor

---------------------------------------------------------------------------
(* The durable path without a live buffer, checked under SpecSession.      *)

\* The handler of the last step fed its event through log_event.
FedThroughLogEvent ==
    \/ last_op.name = "log_event" /\ last_op.ok
    \/ last_op.name = "PaneUpdate"

\* C32: in the durable path, Navigation Left, Right, Home or End that finds
\* no live buffer appends nothing to the log and creates no buffer; every
\* sealing event (Navigation Up/Down/PageUp/PageDown and every other
\* non-text, non-editing event) appends exactly one entry for the event,
\* the last of the log, with or without a live buffer.
C32_DurableWithoutBuffer ==
    FedThroughLogEvent =>
        LET event == last_op.arg
            n == Len(event_log.events)
        IN  /\ (/\ event.tag = "Navigation"
                /\ event.kind \in {"Left", "Right", "Home", "End"}
                /\ ~last_op.data.live_text.some) =>
                   /\ event_log = prev_log
                   /\ live_text = NoText
            /\ is_sealing(event) =>
                   /\ Cardinality({entry \in AppendedByHandler :
                                      entry.event = event}) = 1
                   /\ n >= 1
                   /\ event_log.events[n].event = event
                   /\ \A i \in 1..(n - 1) :
                          event_log.events[i].timestamp_ms
                              < event_log.events[n].timestamp_ms

\* Home has found no live buffer and a log that holds an entry.
C32_Witness ==
    /\ last_op.name = "log_event"
    /\ last_op.ok
    /\ last_op.arg = Navigation("Home", 1, FALSE, FALSE)
    /\ ~last_op.data.live_text.some
    /\ Len(event_log.events) >= 1
    /\ event_log = prev_log

\* C33: Backspace or Delete that finds no live buffer is passed through by
\* both consumers: the ring appends it, or merges it into a tail entry of
\* the same kind, and the durable path appends it to the log as an entry.
C33_EditKeyPassThrough ==
    (last_op.name = "log_event" /\ last_op.ok) =>
        LET event == last_op.arg
            ring == last_op.data.keystroke_activity
        IN  (event.tag = "EditControl" /\ event.kind \in {"Backspace", "Delete"}) =>
              /\ ring.cursor = None =>
                   IF TailRun(ring, event)
                   THEN keystroke_activity.events =
                            WithTailCount(ring.events, back(ring.events).count + 1)
                   ELSE /\ keystroke_activity.events # <<>>
                        /\ back(keystroke_activity.events) = event
                        /\ Len(keystroke_activity.events) =
                               Min(Len(ring.events) + 1, KEYSTROKE_LOG_CAPACITY)
              /\ ~last_op.data.live_text.some =>
                   /\ event_log.events # <<>>
                   /\ event_log.events[Len(event_log.events)] =
                          LogEntry(event, last_op.data.now)


\* ---------------------------------------------------------------------------
\* C34: DiscoveryPhase::Ready is entered only when the mkdir commands
\* completed successfully: the result of a failed `mkdir -p` never leaves the
\* discovery in Ready.
C34_ReadyOnlyAfterSuccessfulMkdir ==
    (/\ last_op.name = "RunCommandResult"
     /\ last_op.arg = "MkdirCrumbeez"
     /\ ~last_op.ok)
    => discovery.phase.name # "Ready"


---------------------------------------------------------------------------
(* Root discovery in every environment: a session started outside a git   *)
(* repository, in a repository or in a submodule, without a log file on    *)
(* disk.  The host answers the permission request and the commands in any  *)
(* order while pane focus changes arrive.                                   *)

InitDiscovery ==
    /\ build = [usize_max |-> USIZE_MAX_32, overflow_checks |-> FALSE]
    /\ pc = "run"
    /\ panicked = FALSE
    /\ event_log = new
    /\ clock = 0
    /\ last_op = Op("init", 0, TRUE, NoHistory)
    /\ prev_log = new
    /\ InitKeyPath
    /\ InitPluginState
    /\ \E env \in Envs : host = Host_after_load(env)

NextDiscovery ==
    \/ PermissionGranted
    \/ PermissionDenied
    \/ GitToplevelResult
    \/ GitSuperprojectResult
    \/ MkdirResult
    \/ HostRunsRead
    \/ ReadEventLogResult
    \/ PaneUpdate

SpecDiscovery == InitDiscovery /\ [][NextDiscovery]_vars

\* The step handled the result of a `mkdir -p`.
MkdirResultHandled ==
    /\ last_op'.name = "RunCommandResult"
    /\ last_op'.arg = "MkdirCrumbeez"

\* The roots discovery makes a directory for.
RootsOf(env) == IF env = "submodule" THEN 2 ELSE 1

\* CreatingDirs as create_crumbeez_dirs is to leave it: one pending result
\* for each root.
StartsCreating(q) ==
    /\ q.name = "CreatingDirs"
    /\ q.pending = RootsOf(host.env)
    /\ Len(q.dirs) = q.pending

\* One step of the phase from p to q along the line.
PhaseStep(p, q) ==
    \/ p.name = "AwaitingPermissions" /\ q.name \in {"FindingGitRoot", "Failed"}
    \/ p.name = "FindingGitRoot" /\ host.env # "plain" /\ q.name = "FindingSuperproject"
    \/ p.name = "FindingGitRoot" /\ host.env = "plain" /\ StartsCreating(q)
    \/ p.name = "FindingSuperproject" /\ StartsCreating(q)
    \/ p.name = "CreatingDirs" /\ p.pending > 1 /\ q = CreatingDirs(p.pending - 1, p.dirs)
    \/ p.name = "CreatingDirs" /\ p.pending = 1 /\ q = Ready(p.dirs)

\* C35: the phase moves along AwaitingPermissions, FindingGitRoot,
\* FindingSuperproject (skipped outside a git repository), CreatingDirs and
\* Ready, or to Failed when the permission is denied.  pending starts at the
\* number of roots and every mkdir result takes one off, Ready is entered
\* exactly when it reaches 0, and no step moves the phase backwards or out of
\* Ready.
C35_LinearDiscovery ==
    [][/\ discovery'.phase # discovery.phase
          => PhaseStep(discovery.phase, discovery'.phase)
       /\ (MkdirResultHandled /\ discovery.phase.name = "CreatingDirs")
          => discovery'.phase # discovery.phase]_vars

\* Both directories of a submodule session were answered for.
C35_Witness ==
    /\ host.env = "submodule"
    /\ discovery.phase.name = "Ready"
    /\ Len(discovery.phase.dirs) = 2
    /\ last_op.name = "RunCommandResult"
    /\ last_op.arg = "MkdirCrumbeez"


\* Every command discovery issued is answered at some time.
SpecDiscoveryFair ==
    /\ SpecDiscovery
    /\ WF_<<discovery, host>>(GitToplevelResult)
    /\ WF_<<discovery, host>>(GitSuperprojectResult)
    /\ WF_<<discovery, host>>(MkdirResult)

\* The read commands among the commands the host holds.
ReadsIssued(h) == {cmd \in h.commands : cmd.purpose = "ReadEventLog"}

\* Commands are numbered in the order of issue: discovery issues the git
\* command or commands and one mkdir for each root before anything else.
CommandsOfDiscovery(env) == (IF env = "plain" THEN 1 ELSE 2) + RootsOf(env)

\* The mkdir result that made discovery ready has just been handled.
JustReady ==
    /\ discovery.phase.name = "Ready"
    /\ last_op.name = "RunCommandResult"
    /\ last_op.arg = "MkdirCrumbeez"

\* C36: once the permission is granted, and with every command answered, the
\* phase reaches Ready; the ReadEventLog command is issued exactly once, at
\* the step from CreatingDirs to Ready: it is there when Ready is entered, it
\* is the first command issued after those of discovery, and there is never
\* another one nor one before Ready.
C36_ReadyAndLoadOnce ==
    /\ permissions_granted ~> (discovery.phase.name = "Ready")
    /\ [](/\ \A cmd \in ReadsIssued(host) :
                (/\ discovery.phase.name = "Ready"
                 /\ cmd.id = CommandsOfDiscovery(host.env))
           /\ JustReady => (\E read \in ReadsIssued(host) : ~read.done))

\* Discovery has just become ready and the read command waits for the host.
C36_Witness ==
    /\ permissions_granted
    /\ JustReady
    /\ host.env = "plain"
    /\ \E cmd \in ReadsIssued(host) : ~cmd.done


---------------------------------------------------------------------------
(* Properties of the ring under push_event and clear, checked under        *)
(* SpecRing.                                                               *)

\* The ring has a tail entry and it is text.
TailIsText(ka) ==
    ka.events # <<>> /\ ka.events[Len(ka.events)].tag = "TextTyped"

\* C37: after any sequence of push_event and clear calls the cursor is Some
\* exactly when the tail entry of the ring is TextTyped; it is None when the
\* ring is empty or its tail is of another kind.
C37_CursorIffTextTail ==
    ~panicked =>
        (keystroke_activity.cursor # None <=> TailIsText(keystroke_activity))

\* A Backspace or Delete has removed the live buffer from behind an older
\* entry, which is the tail now.
C37_Witness ==
    /\ Pushed
    /\ Pushed_event.tag = "EditControl"
    /\ TailIsText(RingBefore)
    /\ Len(keystroke_activity.events) = Len(RingBefore.events) - 1
    /\ keystroke_activity.events # <<>>
    /\ keystroke_activity.cursor = None


\* The push of incoming onto the ring before was merged into its tail entry.
Merged(before, incoming, after) ==
    /\ NoLiveBuffer(before)
    /\ TailRun(before, incoming)
    /\ Len(after.events) = Len(before.events)

\* C38: an event is merged into the tail entry only when the call before it
\* was a push of an event of the same run: two Navigation, two Backspace or
\* two Delete events with any other push between them, text that was typed
\* and deleted again included, stay separate entries.
C38_MergeOnlyAdjacent ==
    [][(/\ last_op'.name = "push_event"
        /\ last_op'.ok
        /\ Merged(last_op'.data, last_op'.arg, keystroke_activity'))
       => (/\ last_op.name = "push_event"
           /\ SameRun(last_op.arg, last_op'.arg))]_vars


\* The entries of a ring between its k oldest ones and its tail.
Inner(events, k) == SubSeq(events, 1 + k, Len(events) - 1)

\* C39: push_event touches the ring only at its ends: with none or one of
\* the oldest entries evicted, the entries before the tail are the first
\* entries of the ring after the call, unchanged and in their order; behind
\* them is at most the tail, as it was, modified or removed, and one
\* appended entry.
C39_PushTouchesEnds ==
    Pushed =>
        \E k \in {0, 1} :
            LET inner == Inner(RingBefore.events, k)
                after == keystroke_activity.events
            IN  /\ Len(inner) <= Len(after)
                /\ Len(after) <= Len(inner) + 2
                /\ SubSeq(after, 1, Len(inner)) = inner
                /\ k = 1 => Len(RingBefore.events) = KEYSTROKE_LOG_CAPACITY

\* Text went into the live buffer behind two older, different entries.
C39_Witness ==
    /\ Pushed
    /\ Len(RingBefore.events) = 3
    /\ Len(keystroke_activity.events) = 3
    /\ keystroke_activity.events[3] # RingBefore.events[3]
    /\ keystroke_activity.events[1] = RingBefore.events[1]
    /\ keystroke_activity.events[2] = RingBefore.events[2]
    /\ RingBefore.events[1] # RingBefore.events[2]


---------------------------------------------------------------------------
(* The capacity of a loaded log, checked under SpecLog.                    *)

\* C40: a log produced by deserialize holds at most EVENT_LOG_CAPACITY
\* entries, right after loading and after any sequence of append, consume
\* and compact.
C40_LoadedCapacityBound ==
    pc = "loaded" => total_count(event_log) <= EVENT_LOG_CAPACITY

=============================================================================
